---- MODULE Spec2Model ----
(***************************************************************************)
(* Model of passlib's handler framework (passlib/utils/handlers.py) and    *)
(* of the handlers built on it (passlib/handlers/windows.py, nthash.py,    *)
(* postgres.py).                                                           *)
(*                                                                         *)
(* Text is modelled as a sequence of one-character strings, so that        *)
(* splitting, prefix tests, case folding and number formatting are         *)
(* computed character by character as the Python code computes them.       *)
(* Python's None is the value None below (a one-element sequence whose     *)
(* element is no character); an optional integer is <<>> or <<n>>.         *)
(***************************************************************************)
EXTENDS Integers, Sequences, FiniteSets, TLC

VARIABLES
    \* ---- MCF codec (parse_mc2 / parse_mc3 / render_mc2 / render_mc3) ----
    m_pc,       \* "args" | "raw" | "rendered" | "parsed"
    m_ident,    \* ident / prefix argument
    m_rounds,   \* rounds argument of render_mc3: <<>> (None) or <<n>>
    m_salt,     \* salt argument of the render functions
    m_chk,      \* checksum argument of the render functions (None or text)
    m_base,     \* rounds_base argument of render_mc3
    m_hash,     \* the hash string: rendered, or given raw
    m_src,      \* how m_hash was made: "none" | "raw" | "render_mc2" | "render_mc3"
    m_op,       \* the parse function applied last: "none" | "parse_mc2" | "parse_mc3"
    m_pbase,    \* rounds_base argument of the last parse_mc3 call
    m_res,      \* result of the last parse call
    \* ---- handler classes: using() / hash() / verify() / identify() ----
    h_pc,       \* "idle" | "class" | "hashed" | "verified" | "identified"
    h_cls,      \* the handler class: [base, truncate_error, default_ident, configured]
    h_nusing,   \* number of using() calls made so far
    h_uerr,     \* error raised by the last using() call (NoError when it returned)
    h_secret,   \* secret given to hash()
    h_user,     \* user context keyword given to hash() (None when not taken)
    h_out,      \* result of hash(): [err, val, trace]
    v_op,       \* "none" | "verify" | "identify"
    v_secret,   \* secret given to verify()
    v_user,     \* user context keyword given to verify()
    v_hash,     \* hash argument of verify() / identify()
    v_from,     \* where v_hash came from: "none" | "hash" | "raw"
    v_out,      \* result of verify() / identify(): [err, val, trace]
    \* ---- rounds normalization (norm_integer / HasRounds._norm_rounds) ----
    n_pc,       \* "idle" | "class" | "normed" | "salt_class" | "salt_normed" | "size_clipped"
    n_cls,      \* the class's hard bounds: [min_rounds, max_rounds]
    n_value,    \* the rounds argument: [int, n] (int is FALSE for a non-integer);
                \* or the salt, or the salt size
    n_relaxed,  \* the relaxed keyword
    n_res,      \* result of the call: [err, val, warnings]
    \* ---- backend registry (BackendMixin / HasManyBackends), one caller ----
    b_pc,       \* "idle" | "class" | "called"
    b_cls,      \* the class: [backends, loaders]
    b_st,       \* class-level state: [active, calc, pending]
    b_ncalls,   \* number of calls made so far
    b_call,     \* the last call: [op, name, dryrun]
    b_before,   \* b_st as it was when the last call was made
    b_out,      \* result of the last call: [err, val, loaded]
    \* ---- backend registry, several threads calling set_backend ----
    k_pc,       \* per thread: position inside set_backend
    k_call,     \* per thread: the call [cls, name, dryrun]
    k_idx,      \* per thread: index in cls.backends of the "any" loop (0 outside it)
    k_cur,      \* per thread: the backend name being loaded
    k_orig,     \* per thread: the saved (_pending_backend, _pending_dry_run)
    k_ok,       \* per thread: what the loader did ("none" before it ran)
    k_lock,     \* per lock: [owner, count] (threading.RLock)
    k_cstate,   \* per class: [active, calc, pending]
    k_hash,     \* per thread: where its hash() / verify() call stands
    \* ---- PrefixWrapper with any prefix and orig_prefix ----
    w_pc,       \* "idle" | "wrapper" | "called"
    w_self,     \* the wrapper: [name, wrapped, prefix, orig_prefix]
    w_op,       \* the last call: "none" | "wrap_unwrap" | "unwrap_wrap" | "identify"
    w_hash,     \* the string the call started from
    w_first,    \* result of the first rewriting: [err, val]
    w_second,   \* result of rewriting it back: [err, val]
    w_idw,      \* wrapper.identify(wrap(hash)): [err, val, trace]
    w_idh,      \* wrapper.identify(hash): [err, val, trace]
    \* ---- using() on classes kept as objects (own attributes and a parent) ----
    u_pc,       \* "idle" | "class" | "called" | "checked" | "hashed"
    u_heap,     \* the classes: sequence of [parent, own]; class 1 is the original
    u_first,    \* settings and instance defaults of class 1 when it was defined
    u_call,     \* the class the last call was made on (0 before any call)
    u_kw,       \* the keywords of the last using() call
    u_before,   \* u_heap as it was when the last call was made
    u_out,      \* result of the last call: [err, cls]
    u_hash,     \* the hash given to needs_update(), or made by hash(), as its fields
    u_nu        \* result of needs_update(): [err, val]

mcf_vars == <<m_pc, m_ident, m_rounds, m_salt, m_chk, m_base, m_hash, m_src,
              m_op, m_pbase, m_res>>

handler_vars == <<h_pc, h_cls, h_nusing, h_uerr, h_secret, h_user, h_out, v_op, v_secret, v_user,
                  v_hash, v_from, v_out>>

norm_vars == <<n_pc, n_cls, n_value, n_relaxed, n_res>>

\* the variables outside the codec and the handler operations
backend_vars == <<b_pc, b_cls, b_st, b_ncalls, b_call, b_before, b_out>>

thread_vars == <<k_pc, k_call, k_idx, k_cur, k_orig, k_ok, k_lock, k_cstate, k_hash>>

wrap_vars == <<w_pc, w_self, w_op, w_hash, w_first, w_second, w_idw, w_idh>>

using_vars == <<u_pc, u_heap, u_first, u_call, u_kw, u_before, u_out, u_hash, u_nu>>

ext_vars == <<norm_vars, backend_vars, thread_vars, wrap_vars, using_vars>>

vars == <<mcf_vars, handler_vars, ext_vars>>

-----------------------------------------------------------------------------
(* Bounds of the model *)

\* longest salt / checksum / raw field drawn for the codec
MaxField == 2
\* largest rounds value of the contiguous range drawn for render_mc3
MaxRounds == 17
\* most fields of a raw hash string handed to the parse functions
MaxParts == 4

-----------------------------------------------------------------------------
(* Text helpers *)

None == <<"None">>

\* str.startswith(prefix)
StartsWith(s, p) ==
    /\ Len(s) >= Len(p)
    /\ SubSeq(s, 1, Len(p)) = p

\* s[n:]
DropFirst(s, n) == SubSeq(s, n + 1, Len(s))

\* all texts over chars of length at most n
RECURSIVE TextsUpTo(_, _)
TextsUpTo(chars, n) ==
    IF n = 0 THEN {<<>>}
    ELSE LET shorter == TextsUpTo(chars, n - 1)
         IN  shorter \cup {t \o <<c>> : t \in shorter, c \in chars}

\* str.split(sep) for a one-character separator: always at least one field
RECURSIVE split(_, _)
split(s, sep) ==
    IF \A i \in 1..Len(s) : s[i] # sep
    THEN <<s>>
    ELSE LET i == CHOOSE k \in 1..Len(s) :
                      /\ s[k] = sep
                      /\ \A j \in 1..(k - 1) : s[j] # sep
         IN  <<SubSeq(s, 1, i - 1)>> \o split(DropFirst(s, i), sep)

\* "".join(parts)
RECURSIVE join(_)
join(parts) ==
    IF parts = <<>> THEN <<>> ELSE Head(parts) \o join(Tail(parts))

\* Python truthiness of a str-or-None value
Truthy(v) == v # None /\ v # <<>>

\* `v or None`
OrNone(v) == IF Truthy(v) THEN v ELSE None

-----------------------------------------------------------------------------
(* Integer formatting and parsing *)

LowerDigits == <<"0", "1", "2", "3", "4", "5", "6", "7", "8", "9",
                 "a", "b", "c", "d", "e", "f">>
UpperDigits == <<"0", "1", "2", "3", "4", "5", "6", "7", "8", "9",
                 "A", "B", "C", "D", "E", "F">>

\* str(n) for base 10, "%x" % n for base 16 (n >= 0)
RECURSIVE format_int(_, _)
format_int(n, base) ==
    IF n < base THEN <<LowerDigits[n + 1]>>
    ELSE format_int(n \div base, base) \o <<LowerDigits[(n % base) + 1]>>

IsDigit(c, base) ==
    \E d \in 1..base : LowerDigits[d] = c \/ UpperDigits[d] = c

DigitValue(c) ==
    (CHOOSE d \in 1..16 : LowerDigits[d] = c \/ UpperDigits[d] = c) - 1

\* int(s, base) succeeds (over the model's characters: no sign, blank,
\* underscore or "0x" prefix is ever drawn)
int_ok(s, base) == s # <<>> /\ \A i \in 1..Len(s) : IsDigit(s[i], base)

RECURSIVE int_value(_, _)
int_value(s, base) ==
    IF s = <<>> THEN 0
    ELSE int_value(SubSeq(s, 1, Len(s) - 1), base) * base + DigitValue(s[Len(s)])

-----------------------------------------------------------------------------
(* Errors (passlib/exc.py).  The hash-format errors are all ValueError      *)
(* instances that differ in their message only.                            *)

NoError == [type |-> "none", msg |-> "", reason |-> "", handler |-> "", max_size |-> 0]

Unnamed == "<unnamed>"

InvalidHashError(handler) ==
    [type |-> "ValueError", msg |-> "not a valid %s hash", reason |-> "",
     handler |-> handler, max_size |-> 0]

MalformedHashError(handler, reason) ==
    [type |-> "ValueError", msg |-> "malformed %s hash", reason |-> reason,
     handler |-> handler, max_size |-> 0]

ZeroPaddedRoundsError(handler) == MalformedHashError(handler, "zero-padded rounds")

\* the ValueError int() raises for a field that is no number
IntLiteralError ==
    [type |-> "ValueError", msg |-> "invalid literal for int()", reason |-> "",
     handler |-> "", max_size |-> 0]

\* result of a handler operation: the error raised (NoError on return), the
\* value returned, and the steps the call went through, in order
Result(err, val, trace) == [err |-> err, val |-> val, trace |-> trace]

NoClass == [base |-> "none", truncate_error |-> FALSE, default_ident |-> <<>>,
            configured |-> FALSE]

\* the handler variables while the codec alone is exercised
HandlerIdle ==
    /\ h_pc = "idle"
    /\ h_cls = NoClass
    /\ h_nusing = 0
    /\ h_uerr = NoError
    /\ h_secret = <<>>
    /\ h_user = None
    /\ h_out = Result(NoError, <<>>, <<>>)
    /\ v_op = "none"
    /\ v_secret = <<>>
    /\ v_user = None
    /\ v_hash = <<>>
    /\ v_from = "none"
    /\ v_out = Result(NoError, FALSE, <<>>)

\* result of a normalization: the error raised (NoError on return), the value
\* returned, and the warnings issued, in order
Normed(err, val, warnings) == [err |-> err, val |-> val, warnings |-> warnings]

\* an integer argument, and an argument that is no integer
IntValue(n) == [int |-> TRUE, n |-> n]
NonInteger == [int |-> FALSE, n |-> 0]

\* the normalization variables while other parts are exercised
NormIdle ==
    /\ n_pc = "idle"
    /\ n_cls = [min_rounds |-> 0, max_rounds |-> <<>>]
    /\ n_value = IntValue(0)
    /\ n_relaxed = FALSE
    /\ n_res = Normed(NoError, 0, <<>>)

\* cls.__backend while no backend is loaded
NoBackend == "None"

\* class-level backend state: the active backend's name, the installed
\* _calc_checksum_backend ("stub" until a backend installs its own), and
\* (_pending_backend, _pending_dry_run)
BackendState(active, calc, pending) ==
    [active |-> active, calc |-> calc, pending |-> pending]

Pending(backend, dry_run) == [backend |-> backend, dry_run |-> dry_run]

Unresolved == BackendState(NoBackend, "stub", Pending(NoBackend, FALSE))

\* result of a registry call: the error raised (NoError on return), the value
\* returned, and the names whose loaders were invoked, in order
CallResult(err, val, loaded) == [err |-> err, val |-> val, loaded |-> loaded]

\* the registry variables while other parts are exercised
BackendIdle ==
    /\ b_pc = "idle"
    /\ b_cls = [backends |-> <<>>, loaders |-> <<>>]
    /\ b_st = Unresolved
    /\ b_ncalls = 0
    /\ b_call = [op |-> "none", name |-> "any", dryrun |-> FALSE]
    /\ b_before = Unresolved
    /\ b_out = CallResult(NoError, "", <<>>)

\* the threads' variables while other parts are exercised
ThreadIdle ==
    /\ k_pc = <<>>
    /\ k_call = <<>>
    /\ k_idx = <<>>
    /\ k_cur = <<>>
    /\ k_orig = <<>>
    /\ k_ok = <<>>
    /\ k_lock = <<>>
    /\ k_cstate = <<>>
    /\ k_hash = <<>>

\* a PrefixWrapper instance: name, the wrapped class, prefix, orig_prefix
Wrapper(wname, wcls, prefix, orig_prefix) ==
    [name |-> wname, wrapped |-> wcls, prefix |-> prefix, orig_prefix |-> orig_prefix]

\* what _unwrap_hash / _wrap_hash give back: the error raised, or the string
Unwrapped(err, val) == [err |-> err, val |-> val]

\* the wrapper variables while no wrapper is exercised
WrapIdle ==
    /\ w_pc = "idle"
    /\ w_self = Wrapper("", NoClass, <<>>, <<>>)
    /\ w_op = "none"
    /\ w_hash = <<>>
    /\ w_first = Unwrapped(NoError, <<>>)
    /\ w_second = Unwrapped(NoError, <<>>)
    /\ w_idw = Result(NoError, FALSE, <<>>)
    /\ w_idh = Result(NoError, FALSE, <<>>)

\* the class variables while using() is not exercised
UsingIdle ==
    /\ u_pc = "idle"
    /\ u_heap = <<>>
    /\ u_first = <<>>
    /\ u_call = 0
    /\ u_kw = <<>>
    /\ u_before = <<>>
    /\ u_out = <<>>
    /\ u_hash = <<>>
    /\ u_nu = <<>>

ExtIdle ==
    /\ NormIdle
    /\ BackendIdle
    /\ ThreadIdle
    /\ WrapIdle
    /\ UsingIdle

-----------------------------------------------------------------------------
(* MCF codec *)

Sep == "$"
Zero == "0"

ParseResult(err, rounds, salt, chk) ==
    [err |-> err, rounds |-> rounds, salt |-> salt, chk |-> chk]

ParseError(err) == ParseResult(err, 0, <<>>, None)

\* parse_mc2 that keeps the first two fields of an over-long hash
parse_mc2_lenient(hash, prefix) ==
    IF ~StartsWith(hash, prefix)
    THEN ParseError(InvalidHashError(Unnamed))
    ELSE LET parts == split(DropFirst(hash, Len(prefix)), Sep)
         IN  IF Len(parts) >= 2
             THEN ParseResult(NoError, 0, parts[1], OrNone(parts[2]))
             ELSE ParseResult(NoError, 0, parts[1], None)

parse_mc2(hash, prefix) ==
    IF ~StartsWith(hash, prefix)
    THEN ParseError(InvalidHashError(Unnamed))
    ELSE LET parts == split(DropFirst(hash, Len(prefix)), Sep)
         IN  IF Len(parts) = 2
             THEN ParseResult(NoError, 0, parts[1], OrNone(parts[2]))
             ELSE IF Len(parts) = 1
             THEN ParseResult(NoError, 0, parts[1], None)
             ELSE ParseError(MalformedHashError(Unnamed, ""))

\* parse_mc3 without the zero-padding test
parse_mc3_padded(hash, prefix, rounds_base, default_rounds) ==
    IF ~StartsWith(hash, prefix)
    THEN ParseError(InvalidHashError(Unnamed))
    ELSE LET parts == split(DropFirst(hash, Len(prefix)), Sep)
         IN  IF Len(parts) \notin {2, 3}
             THEN ParseError(MalformedHashError(Unnamed, ""))
             ELSE LET rounds == parts[1]
                      salt   == parts[2]
                      chk    == IF Len(parts) = 3 THEN parts[3] ELSE None
                  IN  IF rounds # <<>>
                      THEN IF int_ok(rounds, rounds_base)
                           THEN ParseResult(NoError, int_value(rounds, rounds_base),
                                            salt, OrNone(chk))
                           ELSE ParseError(IntLiteralError)
                      ELSE IF default_rounds = <<>>
                      THEN ParseError(MalformedHashError(Unnamed, "empty rounds field"))
                      ELSE ParseResult(NoError, default_rounds[1], salt, OrNone(chk))

\* default_rounds is <<>> (None) or <<n>>
parse_mc3(hash, prefix, rounds_base, default_rounds) ==
    IF ~StartsWith(hash, prefix)
    THEN ParseError(InvalidHashError(Unnamed))
    ELSE LET parts == split(DropFirst(hash, Len(prefix)), Sep)
         IN  IF Len(parts) \notin {2, 3}
             THEN ParseError(MalformedHashError(Unnamed, ""))
             ELSE LET rounds == parts[1]
                      salt   == parts[2]
                      chk    == IF Len(parts) = 3 THEN parts[3] ELSE None
                  IN  IF StartsWith(rounds, <<Zero>>) /\ rounds # <<Zero>>
                      THEN ParseError(ZeroPaddedRoundsError(Unnamed))
                      ELSE IF rounds # <<>>
                      THEN IF int_ok(rounds, rounds_base)
                           THEN ParseResult(NoError, int_value(rounds, rounds_base),
                                            salt, OrNone(chk))
                           ELSE ParseError(IntLiteralError)
                      ELSE IF default_rounds = <<>>
                      THEN ParseError(MalformedHashError(Unnamed, "empty rounds field"))
                      ELSE ParseResult(NoError, default_rounds[1], salt, OrNone(chk))

\* render_mc2 that forgets the separator before the checksum
render_mc2_nosep(ident, salt, checksum) ==
    IF Truthy(checksum)
    THEN join(<<ident, salt, checksum>>)
    ELSE join(<<ident, salt>>)

render_mc2(ident, salt, checksum) ==
    IF Truthy(checksum)
    THEN join(<<ident, salt, <<Sep>>, checksum>>)
    ELSE join(<<ident, salt>>)

\* render_mc3 that always writes the rounds in decimal
render_mc3_decimal(ident, rounds, salt, checksum, rounds_base) ==
    LET rtext == IF rounds = <<>> THEN <<>> ELSE format_int(rounds[1], 10)
    IN  IF Truthy(checksum)
        THEN join(<<ident, rtext, <<Sep>>, salt, <<Sep>>, checksum>>)
        ELSE join(<<ident, rtext, <<Sep>>, salt>>)

\* rounds is <<>> (None) or <<n>>; rounds_base is 10 or 16
render_mc3(ident, rounds, salt, checksum, rounds_base) ==
    LET rtext == IF rounds = <<>> THEN <<>> ELSE format_int(rounds[1], rounds_base)
    IN  IF Truthy(checksum)
        THEN join(<<ident, rtext, <<Sep>>, salt, <<Sep>>, checksum>>)
        ELSE join(<<ident, rtext, <<Sep>>, salt>>)

-----------------------------------------------------------------------------
(* Inputs of the codec specification *)

Idents == {<<>>, <<"$", "1", "$">>, <<"g">>}
SaltTexts == TextsUpTo({"$", "a"}, MaxField)
ChkTexts == TextsUpTo({"$", "g"}, MaxField) \cup {None}
RoundsValues == {<<>>} \cup {<<n>> : n \in (0..MaxRounds) \cup {100, 255, 256}}
Bases == {10, 16}
DefaultRounds == {<<>>, <<5>>}

\* raw hash strings: a head, then 1..MaxParts fields joined by the separator;
\* the first field ranges over number-like texts, the others over few texts
RoundsFields == TextsUpTo({"0", "1", "a", "g"}, MaxField)
OtherFields == {<<>>, <<"a">>, <<"g">>}

RECURSIVE RawBodies(_)
RawBodies(n) ==
    IF n = 1 THEN RoundsFields
    ELSE RawBodies(n - 1) \cup
         {b \o <<Sep>> \o f : b \in RawBodies(n - 1), f \in OtherFields}

RawHashes == {h \o b : h \in Idents, b \in RawBodies(MaxParts)}

-----------------------------------------------------------------------------
(* The codec as a state machine: arguments are drawn, rendered, parsed *)

InitMcf ==
    /\ HandlerIdle
    /\ ExtIdle
    /\ m_ident \in Idents
    /\ m_op = "none"
    /\ m_pbase = 10
    /\ m_res = ParseError(NoError)
    /\ \/ /\ m_pc = "args"
          /\ m_src = "none"
          /\ m_hash = <<>>
          /\ m_rounds \in RoundsValues
          /\ m_salt \in SaltTexts
          /\ m_chk \in ChkTexts
          /\ m_base \in Bases
       \/ /\ m_pc = "raw"
          /\ m_src = "raw"
          /\ m_hash \in RawHashes
          /\ m_rounds = <<>>
          /\ m_salt = <<>>
          /\ m_chk = None
          /\ m_base = 10

DoRenderMc2 ==
    /\ m_pc = "args"
    /\ m_hash' = render_mc2(m_ident, m_salt, m_chk)
    /\ m_src' = "render_mc2"
    /\ m_pc' = "rendered"
    /\ UNCHANGED <<m_ident, m_rounds, m_salt, m_chk, m_base, m_op, m_pbase, m_res>>
    /\ UNCHANGED <<handler_vars, ext_vars>>

DoRenderMc3 ==
    /\ m_pc = "args"
    /\ m_hash' = render_mc3(m_ident, m_rounds, m_salt, m_chk, m_base)
    /\ m_src' = "render_mc3"
    /\ m_pc' = "rendered"
    /\ UNCHANGED <<m_ident, m_rounds, m_salt, m_chk, m_base, m_op, m_pbase, m_res>>
    /\ UNCHANGED <<handler_vars, ext_vars>>

DoParseMc2 ==
    /\ m_pc \in {"raw", "rendered"}
    /\ m_res' = parse_mc2(m_hash, m_ident)
    /\ m_op' = "parse_mc2"
    /\ m_pc' = "parsed"
    /\ UNCHANGED <<m_ident, m_rounds, m_salt, m_chk, m_base, m_hash, m_src, m_pbase>>
    /\ UNCHANGED <<handler_vars, ext_vars>>

DoParseMc3 ==
    /\ m_pc \in {"raw", "rendered"}
    /\ \E b \in Bases, d \in DefaultRounds :
          /\ m_res' = parse_mc3(m_hash, m_ident, b, d)
          /\ m_pbase' = b
    /\ m_op' = "parse_mc3"
    /\ m_pc' = "parsed"
    /\ UNCHANGED <<m_ident, m_rounds, m_salt, m_chk, m_base, m_hash, m_src>>
    /\ UNCHANGED <<handler_vars, ext_vars>>

NextMcf ==
    \/ DoRenderMc2
    \/ DoRenderMc3
    \/ DoParseMc2
    \/ DoParseMc3

SpecMcf == InitMcf /\ [][NextMcf]_vars

-----------------------------------------------------------------------------
(* Properties of the MCF codec *)

DollarFree(s) == \A i \in 1..Len(s) : s[i] # Sep

\* a checksum the round trip is stated for: None, or non-empty and '$'-free
ValidChecksum(c) == c = None \/ (c # <<>> /\ DollarFree(c))

\* the fields of m_hash after the prefix m_ident
HashFields == split(DropFirst(m_hash, Len(m_ident)), Sep)

IsDecimal(s) == s # <<>> /\ \A i \in 1..Len(s) : IsDigit(s[i], 10)

\* C1: for every ident, every '$'-free salt and every checksum that is None or
\* a non-empty '$'-free string, parse_mc2(render_mc2(ident, salt, checksum),
\* ident) returns exactly (salt, checksum).
C1_RoundTripMc2 ==
    (/\ m_pc = "parsed"
     /\ m_op = "parse_mc2"
     /\ m_src = "render_mc2"
     /\ DollarFree(m_salt)
     /\ ValidChecksum(m_chk))
    => m_res = ParseResult(NoError, 0, m_salt, m_chk)

C1_Witness ==
    /\ m_pc = "parsed"
    /\ m_op = "parse_mc2"
    /\ m_src = "render_mc2"
    /\ m_ident = <<"$", "1", "$">>
    /\ m_salt = <<"a", "a">>
    /\ m_chk = <<"g">>
    /\ m_hash = <<"$", "1", "$", "a", "a", "$", "g">>
    /\ m_res.err = NoError
    /\ m_res.chk = <<"g">>

\* C2: for every ident, non-negative rounds, '$'-free salt and checksum that is
\* None or a non-empty '$'-free string, parse_mc3(render_mc3(ident, rounds,
\* salt, checksum, rounds_base=b), ident, rounds_base=b) returns exactly
\* (rounds, salt, checksum) for b = 10 and b = 16; and when checksum is None
\* the rendered string has the two fields rounds and salt only: no checksum
\* field and no trailing separator.
C2_RoundTripMc3 ==
    /\ (/\ m_pc = "parsed"
        /\ m_op = "parse_mc3"
        /\ m_src = "render_mc3"
        /\ m_rounds # <<>>
        /\ m_pbase = m_base
        /\ DollarFree(m_salt)
        /\ ValidChecksum(m_chk))
       => m_res = ParseResult(NoError, m_rounds[1], m_salt, m_chk)
    /\ (/\ m_src = "render_mc3"
        /\ m_rounds # <<>>
        /\ DollarFree(m_salt)
        /\ m_chk = None)
       => /\ Len(HashFields) = 2
          /\ HashFields[2] = m_salt
          /\ Len(m_hash) = Len(m_ident) + Len(HashFields[1]) + 1 + Len(m_salt)

C2_Witness ==
    /\ m_pc = "parsed"
    /\ m_op = "parse_mc3"
    /\ m_src = "render_mc3"
    /\ m_base = 16
    /\ m_pbase = 16
    /\ m_rounds = <<255>>
    /\ m_salt = <<"a">>
    /\ m_chk = <<"g", "g">>
    /\ m_ident = <<"$", "1", "$">>
    /\ m_hash = <<"$", "1", "$", "f", "f", "$", "a", "$", "g", "g">>
    /\ m_res.rounds = 255

\* C3: parse_mc3 raises a malformed-hash error for every input whose rounds
\* field has more than one character and starts with '0' (the zero-padded
\* rounds error when the hash has 2 or 3 fields), and accepts every rounds
\* field that is '0' or a digit string without a leading zero, returning its
\* integer value.
C3_ZeroPaddedRounds ==
    (/\ m_pc = "parsed"
     /\ m_op = "parse_mc3"
     /\ StartsWith(m_hash, m_ident))
    => LET rounds == HashFields[1]
       IN  /\ (Len(rounds) > 1 /\ rounds[1] = Zero)
              => /\ m_res.err.msg = "malformed %s hash"
                 /\ Len(HashFields) \in {2, 3}
                    => m_res.err = ZeroPaddedRoundsError(Unnamed)
           /\ (/\ Len(HashFields) \in {2, 3}
               /\ IsDecimal(rounds)
               /\ (rounds = <<Zero>> \/ rounds[1] # Zero))
              => /\ m_res.err = NoError
                 /\ m_res.rounds >= 0
                 /\ format_int(m_res.rounds, m_pbase) = rounds

C3_Witness ==
    /\ m_pc = "parsed"
    /\ m_op = "parse_mc3"
    /\ m_src = "raw"
    /\ m_ident = <<"$", "1", "$">>
    /\ m_hash = <<"$", "1", "$", "0", "1", "$", "a", "$", "g">>
    /\ m_res.err = ZeroPaddedRoundsError(Unnamed)

\* what parse_mc2 returns for a hash of exactly two fields, as C4 states it
C4_StatedTwoFields ==
    (/\ m_pc = "parsed"
     /\ m_op = "parse_mc2"
     /\ StartsWith(m_hash, m_ident)
     /\ Len(HashFields) = 2)
    => m_res = ParseResult(NoError, 0, HashFields[1], HashFields[2])

\* C4 (amended): parse_mc2(hash, prefix) fails with the invalid-hash error when
\* hash does not start with prefix; otherwise the remainder is split on '$':
\* 1 field returns (field, None); 2 fields return (first, second), with None in
\* place of an empty second field; any other count fails with the
\* malformed-hash error, whose message differs from the invalid-hash error's.
C4_ParseMc2Classes ==
    (m_pc = "parsed" /\ m_op = "parse_mc2")
    => IF ~StartsWith(m_hash, m_ident)
       THEN m_res.err = InvalidHashError(Unnamed)
       ELSE CASE Len(HashFields) = 1 ->
                    m_res = ParseResult(NoError, 0, HashFields[1], None)
              [] Len(HashFields) = 2 ->
                    m_res = ParseResult(NoError, 0, HashFields[1],
                                        IF HashFields[2] = <<>> THEN None
                                        ELSE HashFields[2])
              [] OTHER ->
                    /\ m_res.err = MalformedHashError(Unnamed, "")
                    /\ m_res.err # InvalidHashError(Unnamed)
                    /\ m_res.err.msg # InvalidHashError(Unnamed).msg

C4_Witness ==
    /\ m_pc = "parsed"
    /\ m_op = "parse_mc2"
    /\ m_src = "raw"
    /\ m_ident = <<"$", "1", "$">>
    /\ m_hash = <<"$", "1", "$", "a", "$", "g", "$", "a">>
    /\ m_res.err = MalformedHashError(Unnamed, "")

-----------------------------------------------------------------------------
(* Handler framework: configuration *)

\* the global secret-size ceiling (passlib.utils.MAX_PASSWORD_SIZE, set from
\* the PASSLIB_MAX_PASSWORD_SIZE environment variable; 4096 when unset),
\* configured here just above lmhash's truncate_size
MAX_PASSWORD_SIZE == 15
\* longest tail that follows the run of "a" in a drawn secret
MaxTail == 1
\* longest chain of using() calls
MaxUsing == 2

\* lmhash.truncate_size
truncate_size == 14
\* bytes of a DES key in lmhash.raw
des_key_size == 7
\* checksum_size of lmhash, nthash, msdcc, msdcc2: hex digits of a 16-byte digest
checksum_size == 32

Nul == "NUL"

\* str.upper() / str.lower() over the characters of the model
Upper(c) ==
    CASE c = "a" -> "A" [] c = "b" -> "B" [] c = "c" -> "C" [] c = "d" -> "D"
      [] c = "e" -> "E" [] c = "f" -> "F" [] c = "x" -> "X" [] c = "u" -> "U"
      [] c = "v" -> "V" [] c = "m" -> "M" [] c = "z" -> "Z" [] OTHER -> c

Lower(c) ==
    CASE c = "A" -> "a" [] c = "B" -> "b" [] c = "C" -> "c" [] c = "D" -> "d"
      [] c = "E" -> "e" [] c = "F" -> "f" [] c = "X" -> "x" [] c = "U" -> "u"
      [] c = "V" -> "v" [] c = "M" -> "m" [] c = "Z" -> "z" [] c = "N" -> "n"
      [] c = "T" -> "t" [] OTHER -> c

upper(s) == [i \in 1..Len(s) |-> Upper(s[i])]
lower(s) == [i \in 1..Len(s) |-> Lower(s[i])]

\* n copies of c
Repeat(c, n) == [i \in 1..n |-> c]

HEX_CHARS == {LowerDigits[i] : i \in 1..16} \cup {UpperDigits[i] : i \in 1..16}
LOWER_HEX_CHARS == {LowerDigits[i] : i \in 1..16}

-----------------------------------------------------------------------------
(* Digest primitives.  The primitives come from the crypto library; each is  *)
(* modelled as a collision-free function of its input bytes into lower-case  *)
(* hex digits of the digest's size.                                         *)

\* one hex digit per input character; "0" is kept for padding
Nibble(c) ==
    CASE c = "a" -> "1" [] c = "x" -> "2" [] c = "A" -> "3" [] c = "X" -> "4"
      [] c = "u" -> "5" [] c = "v" -> "6" [] c = "b" -> "7" [] c = "|" -> "f"
      [] OTHER -> "e"

\* hexlify(digest(data)): 32 hex digits that determine data (Len(data) <= 32)
digest_hex(data) ==
    [i \in 1..checksum_size |-> IF i <= Len(data) THEN Nibble(data[i]) ELSE "0"]

\* hexlify of one key byte
ByteHex(c) ==
    CASE c = "A" -> <<"4", "1">> [] c = "X" -> <<"5", "8">>
      [] c = "a" -> <<"6", "1">> [] c = "x" -> <<"7", "8">>
      [] c = Nul -> <<"0", "0">> [] OTHER -> <<"f", "f">>

\* hexlify(des_encrypt_block(key, MAGIC)): 16 hex digits that determine the
\* 7-byte key
RECURSIVE des_block_hex(_)
des_block_hex(key) ==
    IF key = <<>> THEN <<"a", "a">>
    ELSE ByteHex(Head(key)) \o des_block_hex(Tail(key))

\* right_pad_string(secret, 14): pad with NUL, or truncate
right_pad_string(s, size) ==
    [i \in 1..size |-> IF i <= Len(s) THEN s[i] ELSE Nul]

\* lmhash.raw that encrypts with secret[0:7] for both blocks
lmhash_raw_hex_firstblock(secret) ==
    LET padded == right_pad_string(upper(secret), truncate_size)
    IN  des_block_hex(SubSeq(padded, 1, des_key_size))
        \o des_block_hex(SubSeq(padded, 1, des_key_size))

\* hexlify(lmhash.raw(secret))
lmhash_raw_hex(secret) ==
    LET padded == right_pad_string(upper(secret), truncate_size)
    IN  des_block_hex(SubSeq(padded, 1, des_key_size))
        \o des_block_hex(SubSeq(padded, des_key_size + 1, truncate_size))

\* hexlify(nthash.raw(secret)): md4 of the secret
nthash_raw_hex(secret) == digest_hex(secret)

\* hexlify(msdcc.raw(secret, user)): md4(md4(secret) + lower(user))
msdcc_raw_hex(secret, user) == digest_hex(secret \o <<"|">> \o lower(user))

\* hexlify(msdcc2.raw(secret, user)): pbkdf2 over the msdcc digest, salted
\* with lower(user)
msdcc2_raw_hex(secret, user) ==
    digest_hex(<<"|">> \o secret \o <<"|">> \o lower(user))

\* md5(secret + user).hexdigest()
postgres_md5_hex(secret, user) == digest_hex(secret \o user)

-----------------------------------------------------------------------------
(* Errors of the handler operations (passlib/exc.py) *)

PasswordSizeError(max_size) ==
    [type |-> "PasswordSizeError", msg |-> "password exceeds maximum allowed size",
     reason |-> "", handler |-> "", max_size |-> max_size]

PasswordTruncateError(handler) ==
    [type |-> "PasswordTruncateError",
     msg |-> "Password too long (%s truncates to %d characters)",
     reason |-> "", handler |-> handler, max_size |-> truncate_size]

MissingDigestError(handler) ==
    [type |-> "ValueError", msg |-> "expected %s hash, got %s config string instead",
     reason |-> "", handler |-> handler, max_size |-> 0]

ExpectedStringError(param) ==
    [type |-> "TypeError", msg |-> "%s must be str or bytes, not %s",
     reason |-> param, handler |-> "", max_size |-> 0]

ChecksumSizeError(handler) ==
    MalformedHashError(handler, "checksum must be exactly %d chars")

ValueError(msg, handler) ==
    [type |-> "ValueError", msg |-> msg, reason |-> "", handler |-> handler,
     max_size |-> 0]

TypeError(msg) ==
    [type |-> "TypeError", msg |-> msg, reason |-> "", handler |-> "", max_size |-> 0]

\* isinstance(err, ValueError)
IsValueError(err) ==
    err.type \in {"ValueError", "PasswordSizeError", "PasswordTruncateError"}

-----------------------------------------------------------------------------
(* Handler classes.  A class is its base handler plus the class attributes   *)
(* that using() overrides.                                                  *)

\* windows.py: lmhash, nthash, msdcc, msdcc2 (StaticHandler), bsd_nthash
\* (PrefixWrapper around nthash); nthash.py: the MCF nthash (HasManyIdents),
\* called nthash_mcf here; postgres.py: postgres_md5 (a plain class);
\* salted_mcf: a salted 2-field MCF handler built on HasSalt and the codec
StaticBases == {"lmhash", "nthash", "msdcc", "msdcc2"}
HandlerBases == StaticBases \cup {"bsd_nthash", "nthash_mcf", "postgres_md5", "salted_mcf"}

\* nthash_mcf.ident_values / ident_aliases / default_ident
ident_values == <<<<"$", "3", "$", "$">>, <<"$", "N", "T", "$">>>>
ident_alias(ident) ==
    CASE ident = <<"3">> -> ident_values[1]
      [] ident = <<"N", "T">> -> ident_values[2]
      [] OTHER -> None

\* bsd_nthash: prefix and orig_prefix of the wrapper
bsd_prefix == <<"$", "3", "$", "$">>
bsd_orig_prefix == <<>>

\* salted_mcf: ident, salt_chars, min_salt_size, max_salt_size
mcf_ident == <<"$", "1", "$">>
mcf_salt_chars == {"a", "b"}
mcf_min_salt_size == 0
mcf_max_salt_size == 2

Class(base) ==
    [base |-> base, truncate_error |-> FALSE,
     default_ident |-> IF base = "nthash_mcf" THEN ident_values[1] ELSE <<>>,
     configured |-> FALSE]

\* handler.name
name(cls) ==
    CASE cls.base = "nthash_mcf" -> "nthash"
      [] OTHER -> cls.base

\* context_kwds
TakesUser(base) == base \in {"msdcc", "msdcc2", "postgres_md5"}

\* the class a PrefixWrapper wraps
wrapped(cls) == [cls EXCEPT !.base = "nthash"]

\* cls.checksum_size (0 for None)
cls_checksum_size(cls) ==
    IF cls.base \in StaticBases \cup {"salted_mcf"} THEN checksum_size ELSE 0

\* cls.checksum_chars
cls_checksum_chars(cls) ==
    IF cls.base \in StaticBases THEN HEX_CHARS ELSE LOWER_HEX_CHARS

-----------------------------------------------------------------------------
(* Handler framework: instances *)

Instance(checksum, salt, ident, user, use_defaults) ==
    [checksum |-> checksum, salt |-> salt, ident |-> ident, user |-> user,
     use_defaults |-> use_defaults]

Made(err, inst) == [err |-> err, inst |-> inst]

NoInstance == Instance(None, None, None, None, FALSE)

\* validate_secret: the secret is always text here, so only the size is tested
validate_secret(secret) ==
    IF Len(secret) > MAX_PASSWORD_SIZE
    THEN PasswordSizeError(MAX_PASSWORD_SIZE)
    ELSE NoError

\* GenericHandler._norm_checksum for a text checksum: the error, if any
norm_checksum_error(cls, checksum) ==
    IF cls_checksum_size(cls) # 0 /\ Len(checksum) # cls_checksum_size(cls)
    THEN ChecksumSizeError(name(cls))
    ELSE IF \E i \in 1..Len(checksum) : checksum[i] \notin cls_checksum_chars(cls)
    THEN ValueError("invalid characters in %s checksum", name(cls))
    ELSE NoError

\* HasManyIdents._norm_ident: the normalized ident, or None when invalid
norm_ident(ident) ==
    IF \E i \in 1..Len(ident_values) : ident_values[i] = ident THEN ident
    ELSE ident_alias(ident)

\* HasSalt._norm_salt in strict mode: the error, if any
norm_salt_error(cls, salt) ==
    IF \E i \in 1..Len(salt) : salt[i] \notin mcf_salt_chars
    THEN ValueError("invalid characters in %s salt", name(cls))
    ELSE IF mcf_min_salt_size # 0 /\ Len(salt) < mcf_min_salt_size
    THEN ValueError("salt too small", name(cls))
    ELSE IF mcf_max_salt_size # 0 /\ Len(salt) > mcf_max_salt_size
    THEN ValueError("salt too large", name(cls))
    ELSE NoError

\* HasSalt._generate_salt: the salts getrandstr may return
GeneratedSalts ==
    {t \in TextsUpTo(mcf_salt_chars, mcf_max_salt_size) : Len(t) = mcf_max_salt_size}

\* cls(checksum=..., use_defaults=..., user=..., ident=..., salt=...): the
\* constructors of the class's bases run innermost first: GenericHandler
\* (checksum), then HasUserContext / HasManyIdents / HasSalt.  gsalt is the
\* salt _generate_salt() returns if it is called.
construct(cls, checksum, use_defaults, user, ident, salt, gsalt) ==
    LET cerr == IF checksum = None THEN NoError
                ELSE norm_checksum_error(cls, checksum)
    IN  IF cerr # NoError THEN Made(cerr, NoInstance)
        ELSE IF cls.base = "nthash_mcf"
        THEN IF ident # None
             THEN IF norm_ident(ident) = None
                  THEN Made(ValueError("invalid ident", ""), NoInstance)
                  ELSE Made(NoError,
                            Instance(checksum, None, norm_ident(ident), None, use_defaults))
             ELSE IF use_defaults
             THEN Made(NoError,
                       Instance(checksum, None, cls.default_ident, None, use_defaults))
             ELSE Made(TypeError("no ident specified"), NoInstance)
        ELSE IF cls.base = "salted_mcf"
        THEN IF salt # None
             THEN IF norm_salt_error(cls, salt) # NoError
                  THEN Made(norm_salt_error(cls, salt), NoInstance)
                  ELSE Made(NoError, Instance(checksum, salt, None, None, use_defaults))
             ELSE IF use_defaults
             THEN Made(NoError, Instance(checksum, gsalt, None, None, use_defaults))
             ELSE Made(TypeError("no salt specified"), NoInstance)
        ELSE Made(NoError, Instance(checksum, None, None, user, use_defaults))

\* TruncateMixin._check_truncate_policy that also refuses a secret of exactly
\* truncate_size
check_truncate_policy_inclusive(cls, secret) ==
    IF cls.truncate_error /\ Len(secret) >= truncate_size
    THEN PasswordTruncateError(name(cls))
    ELSE NoError

\* TruncateMixin._check_truncate_policy
check_truncate_policy(cls, secret) ==
    IF cls.truncate_error /\ Len(secret) > truncate_size
    THEN PasswordTruncateError(name(cls))
    ELSE NoError

Computed(err, val) == [err |-> err, val |-> val]

\* self._calc_checksum(secret)
calc_checksum(cls, self, secret) ==
    CASE cls.base = "lmhash" ->
            IF self.use_defaults /\ check_truncate_policy(cls, secret) # NoError
            THEN Computed(check_truncate_policy(cls, secret), <<>>)
            ELSE Computed(NoError, lmhash_raw_hex(secret))
      [] cls.base = "nthash" -> Computed(NoError, nthash_raw_hex(secret))
      [] cls.base = "nthash_mcf" -> Computed(NoError, nthash_raw_hex(secret))
      [] cls.base = "msdcc" -> Computed(NoError, msdcc_raw_hex(secret, self.user))
      [] cls.base = "msdcc2" -> Computed(NoError, msdcc2_raw_hex(secret, self.user))
      [] OTHER -> Computed(NoError, digest_hex(secret \o <<"|">> \o self.salt))

\* self.to_string()
to_string(cls, self) ==
    CASE cls.base = "nthash_mcf" ->
            self.ident \o (IF Truthy(self.checksum) THEN self.checksum
                           ELSE Repeat(Zero, checksum_size))
      [] cls.base = "salted_mcf" -> render_mc2(mcf_ident, self.salt, self.checksum)
      [] OTHER -> self.checksum

\* cls.from_string(hash, **context)
from_string(cls, hash, user) ==
    CASE cls.base \in StaticBases ->
            construct(cls, lower(hash), FALSE, user, None, None, None)
      [] cls.base = "nthash_mcf" ->
            IF \E i \in 1..Len(ident_values) : StartsWith(hash, ident_values[i])
            THEN LET i == CHOOSE k \in 1..Len(ident_values) :
                              /\ StartsWith(hash, ident_values[k])
                              /\ \A j \in 1..(k - 1) : ~StartsWith(hash, ident_values[j])
                 IN  construct(cls, DropFirst(hash, Len(ident_values[i])), FALSE,
                               None, ident_values[i], None, None)
            ELSE Made(InvalidHashError(name(cls)), NoInstance)
      [] OTHER ->
            LET parsed == parse_mc2(hash, mcf_ident)
            IN  IF parsed.err # NoError
                THEN Made([parsed.err EXCEPT !.handler = name(cls)], NoInstance)
                ELSE construct(cls, parsed.chk, FALSE, None, None, parsed.salt, None)

-----------------------------------------------------------------------------
(* Handler framework: hash / verify / identify *)

\* GenericHandler.hash(secret, **context)
GenericHandler_hash(cls, secret, user, gsalt) ==
    IF validate_secret(secret) # NoError
    THEN Result(validate_secret(secret), <<>>, <<"validate_secret">>)
    ELSE LET made == construct(cls, None, TRUE, user, None, None, gsalt)
         IN  IF made.err # NoError
             THEN Result(made.err, <<>>, <<"validate_secret", "__init__">>)
             ELSE LET chk == calc_checksum(cls, made.inst, secret)
                  IN  IF chk.err # NoError
                      THEN Result(chk.err, <<>>,
                                  <<"validate_secret", "__init__", "_calc_checksum">>)
                      ELSE Result(NoError,
                                  to_string(cls, [made.inst EXCEPT !.checksum = chk.val]),
                                  <<"validate_secret", "__init__", "_calc_checksum",
                                    "to_string">>)

\* GenericHandler.verify that computes the checksum before it looks for one
GenericHandler_verify_late(cls, secret, hash, user) ==
    IF validate_secret(secret) # NoError
    THEN Result(validate_secret(secret), FALSE, <<"validate_secret">>)
    ELSE LET made == from_string(cls, hash, user)
         IN  IF made.err # NoError
             THEN Result(made.err, FALSE, <<"validate_secret", "from_string">>)
             ELSE LET chk == calc_checksum(cls, made.inst, secret)
                  IN  IF chk.err # NoError
                      THEN Result(chk.err, FALSE,
                                  <<"validate_secret", "from_string", "_calc_checksum">>)
                      ELSE Result(NoError, chk.val = made.inst.checksum,
                                  <<"validate_secret", "from_string", "_calc_checksum",
                                    "consteq">>)

\* GenericHandler.verify that calls cls.from_string(hash) without **context:
\* the instance has no user, and a checksum that needs one raises TypeError
GenericHandler_verify_nocontext(cls, secret, hash, user) ==
    IF validate_secret(secret) # NoError
    THEN Result(validate_secret(secret), FALSE, <<"validate_secret">>)
    ELSE LET made == from_string(cls, hash, None)
         IN  IF made.err # NoError
             THEN Result(made.err, FALSE, <<"validate_secret", "from_string">>)
             ELSE IF made.inst.checksum = None
             THEN Result(MissingDigestError(name(cls)), FALSE,
                         <<"validate_secret", "from_string">>)
             ELSE IF TakesUser(cls.base)
             THEN Result(ExpectedStringError("user"), FALSE,
                         <<"validate_secret", "from_string", "_calc_checksum">>)
             ELSE Result(NoError,
                         calc_checksum(cls, made.inst, secret).val = made.inst.checksum,
                         <<"validate_secret", "from_string", "_calc_checksum",
                           "consteq">>)

\* GenericHandler.verify(secret, hash, **context)
GenericHandler_verify(cls, secret, hash, user) ==
    IF validate_secret(secret) # NoError
    THEN Result(validate_secret(secret), FALSE, <<"validate_secret">>)
    ELSE LET made == from_string(cls, hash, user)
         IN  IF made.err # NoError
             THEN Result(made.err, FALSE, <<"validate_secret", "from_string">>)
             ELSE IF made.inst.checksum = None
             THEN Result(MissingDigestError(name(cls)), FALSE,
                         <<"validate_secret", "from_string">>)
             ELSE LET chk == calc_checksum(cls, made.inst, secret)
                  IN  IF chk.err # NoError
                      THEN Result(chk.err, FALSE,
                                  <<"validate_secret", "from_string", "_calc_checksum">>)
                      ELSE Result(NoError, chk.val = made.inst.checksum,
                                  <<"validate_secret", "from_string", "_calc_checksum",
                                    "consteq">>)

\* cls.ident of a GenericHandler: None unless the class sets a prefix
cls_ident(cls) == IF cls.base = "salted_mcf" THEN mcf_ident ELSE None

\* GenericHandler.identify that lets the parse error through
GenericHandler_identify_raising(cls, hash) ==
    IF hash = None
    THEN Result(ExpectedStringError("hash"), FALSE, <<"to_unicode_for_identify">>)
    ELSE IF hash = <<>>
    THEN Result(NoError, FALSE, <<"to_unicode_for_identify">>)
    ELSE IF cls_ident(cls) # None
    THEN Result(NoError, StartsWith(hash, cls_ident(cls)),
                <<"to_unicode_for_identify", "startswith">>)
    ELSE Result(from_string(cls, hash, None).err,
                from_string(cls, hash, None).err = NoError,
                <<"to_unicode_for_identify", "from_string">>)

\* GenericHandler.identify(hash); no class of the model sets _hash_regex
GenericHandler_identify(cls, hash) ==
    IF hash = None
    THEN Result(ExpectedStringError("hash"), FALSE, <<"to_unicode_for_identify">>)
    ELSE IF hash = <<>>
    THEN Result(NoError, FALSE, <<"to_unicode_for_identify">>)
    ELSE IF cls_ident(cls) # None
    THEN Result(NoError, StartsWith(hash, cls_ident(cls)),
                <<"to_unicode_for_identify", "startswith">>)
    ELSE LET made == from_string(cls, hash, None)
         IN  IF made.err = NoError
             THEN Result(NoError, TRUE, <<"to_unicode_for_identify", "from_string">>)
             ELSE IF IsValueError(made.err)
             THEN Result(NoError, FALSE, <<"to_unicode_for_identify", "from_string">>)
             ELSE Result(made.err, FALSE, <<"to_unicode_for_identify", "from_string">>)

\* HasManyIdents.identify that tests hash.startswith(cls.default_ident) only
HasManyIdents_identify_default(cls, hash) ==
    IF hash = None
    THEN Result(ExpectedStringError("hash"), FALSE, <<"to_unicode_for_identify">>)
    ELSE Result(NoError, StartsWith(hash, ident_values[1]),
                <<"to_unicode_for_identify", "startswith">>)

\* HasManyIdents.identify(hash)
HasManyIdents_identify(cls, hash) ==
    IF hash = None
    THEN Result(ExpectedStringError("hash"), FALSE, <<"to_unicode_for_identify">>)
    ELSE Result(NoError,
                \E i \in 1..Len(ident_values) : StartsWith(hash, ident_values[i]),
                <<"to_unicode_for_identify", "startswith">>)

-----------------------------------------------------------------------------
(* PrefixWrapper (bsd_nthash) *)

\* PrefixWrapper._unwrap_hash(hash)
Wrapper_unwrap_hash(self, hash) ==
    IF ~StartsWith(hash, self.prefix)
    THEN Unwrapped(InvalidHashError(self.name), <<>>)
    ELSE Unwrapped(NoError, self.orig_prefix \o DropFirst(hash, Len(self.prefix)))

\* PrefixWrapper._wrap_hash that prepends prefix and keeps orig_prefix in place
Wrapper_wrap_hash_keeping(self, hash) ==
    IF ~StartsWith(hash, self.orig_prefix)
    THEN Unwrapped(InvalidHashError(name(self.wrapped)), <<>>)
    ELSE Unwrapped(NoError, self.prefix \o hash)

\* PrefixWrapper._wrap_hash(hash), for text (no bytes to decode)
Wrapper_wrap_hash(self, hash) ==
    IF ~StartsWith(hash, self.orig_prefix)
    THEN Unwrapped(InvalidHashError(name(self.wrapped)), <<>>)
    ELSE Unwrapped(NoError, self.prefix \o DropFirst(hash, Len(self.orig_prefix)))

\* bsd_nthash = PrefixWrapper("bsd_nthash", nthash, prefix="$3$$")
bsd_nthash(cls) == Wrapper(name(cls), wrapped(cls), bsd_prefix, bsd_orig_prefix)

\* bsd_nthash._unwrap_hash
unwrap_hash(cls, hash) == Wrapper_unwrap_hash(bsd_nthash(cls), hash)

\* bsd_nthash._wrap_hash
wrap_hash(cls, hash) == Wrapper_wrap_hash(bsd_nthash(cls), hash)

\* PrefixWrapper.hash
PrefixWrapper_hash(cls, secret, user, gsalt) ==
    LET inner == GenericHandler_hash(wrapped(cls), secret, user, gsalt)
    IN  IF inner.err # NoError THEN inner
        ELSE Result(wrap_hash(cls, inner.val).err, wrap_hash(cls, inner.val).val,
                    inner.trace \o <<"_wrap_hash">>)

\* PrefixWrapper.verify
PrefixWrapper_verify(cls, secret, hash, user) ==
    IF unwrap_hash(cls, hash).err # NoError
    THEN Result(unwrap_hash(cls, hash).err, FALSE, <<"_unwrap_hash">>)
    ELSE LET inner == GenericHandler_verify(wrapped(cls), secret,
                                            unwrap_hash(cls, hash).val, user)
         IN  Result(inner.err, inner.val, <<"_unwrap_hash">> \o inner.trace)

\* PrefixWrapper.identify
PrefixWrapper_identify(cls, hash) ==
    IF hash = None
    THEN Result(ExpectedStringError("hash"), FALSE, <<"to_unicode_for_identify">>)
    ELSE IF ~StartsWith(hash, bsd_prefix)
    THEN Result(NoError, FALSE, <<"to_unicode_for_identify", "startswith">>)
    ELSE LET inner == GenericHandler_identify(wrapped(cls), unwrap_hash(cls, hash).val)
         IN  Result(inner.err, inner.val,
                    <<"to_unicode_for_identify", "startswith", "_unwrap_hash">>
                    \o inner.trace)

-----------------------------------------------------------------------------
(* postgres_md5 (postgres.py): a class of its own, outside the framework *)

postgres_prefix == <<"m", "d", "5">>

\* postgres_md5.identify: the regular expression ^md5[0-9a-f]{32}$
postgres_identify(hash) ==
    /\ hash # None
    /\ Len(hash) = Len(postgres_prefix) + checksum_size
    /\ StartsWith(hash, postgres_prefix)
    /\ \A i \in (Len(postgres_prefix) + 1)..Len(hash) : hash[i] \in LOWER_HEX_CHARS

\* postgres_md5.encrypt(secret, user)
postgres_encrypt(secret, user) ==
    IF user = <<>>
    THEN Result(ValueError("user keyword must be specified for this algorithm", ""),
                <<>>, <<>>)
    ELSE Result(NoError, postgres_prefix \o postgres_md5_hex(secret, user), <<"md5">>)

\* postgres_md5.verify(secret, hash, user), through genhash
postgres_verify(secret, hash, user) ==
    IF hash = <<>>
    THEN Result(ValueError("no hash specified", ""), FALSE, <<>>)
    ELSE IF ~postgres_identify(hash)
    THEN Result(ValueError("not a postgres-md5 hash", ""), FALSE, <<"identify">>)
    ELSE Result(postgres_encrypt(secret, user).err,
                postgres_encrypt(secret, user).val = hash,
                <<"identify">> \o postgres_encrypt(secret, user).trace)

-----------------------------------------------------------------------------
(* using() *)

\* keywords of a using() call: truncate_error is <<>> (not given) or <<b>>;
\* ident and default_ident are None (not given) or text
Settings(truncate_error, ident, default_ident) ==
    [truncate_error |-> truncate_error, ident |-> ident,
     default_ident |-> default_ident]

Configured(err, cls) == [err |-> err, cls |-> cls]

\* MinimalHandler.using: a new subclass, marked configured
MinimalHandler_using(cls) == [cls EXCEPT !.configured = TRUE]

\* TruncateMixin.using(truncate_error=...)
TruncateMixin_using(cls, st) ==
    IF st.truncate_error # <<>>
    THEN Configured(NoError,
                    [MinimalHandler_using(cls) EXCEPT !.truncate_error = st.truncate_error[1]])
    ELSE Configured(NoError, MinimalHandler_using(cls))

\* HasManyIdents.using(default_ident=..., ident=...)
HasManyIdents_using(cls, st) ==
    IF st.ident # None /\ st.default_ident # None
    THEN Configured(TypeError("'default_ident' and 'ident' are mutually exclusive"), cls)
    ELSE LET given == IF st.ident # None THEN st.ident ELSE st.default_ident
         IN  IF given = None THEN Configured(NoError, MinimalHandler_using(cls))
             ELSE IF norm_ident(given) = None
             THEN Configured(ValueError("invalid ident", ""), cls)
             ELSE Configured(NoError,
                             [MinimalHandler_using(cls) EXCEPT
                                  !.default_ident = norm_ident(given)])

\* cls.using(**settings); PrefixWrapper.using wraps the wrapped class's subclass
using(cls, st) ==
    CASE cls.base = "lmhash" -> TruncateMixin_using(cls, st)
      [] cls.base = "nthash_mcf" -> HasManyIdents_using(cls, st)
      [] OTHER -> Configured(NoError, MinimalHandler_using(cls))

\* the keywords each class's using() accepts
SettingsOf(base) ==
    CASE base = "lmhash" -> {Settings(t, None, None) : t \in {<<>>, <<TRUE>>, <<FALSE>>}}
      [] base = "nthash_mcf" ->
            {Settings(<<>>, i, d) :
                i \in {None, <<"N", "T">>, <<"z">>}, d \in {None, ident_values[2]}}
      [] OTHER -> {Settings(<<>>, None, None)}

-----------------------------------------------------------------------------
(* The public surface, by class *)

\* cls.hash(secret, **context)
Hash(cls, secret, user, gsalt) ==
    CASE cls.base = "bsd_nthash" -> PrefixWrapper_hash(cls, secret, user, gsalt)
      [] cls.base = "postgres_md5" -> postgres_encrypt(secret, user)
      [] OTHER -> GenericHandler_hash(cls, secret, user, gsalt)

\* cls.verify(secret, hash, **context)
Verify(cls, secret, hash, user) ==
    CASE cls.base = "bsd_nthash" -> PrefixWrapper_verify(cls, secret, hash, user)
      [] cls.base = "postgres_md5" -> postgres_verify(secret, hash, user)
      [] OTHER -> GenericHandler_verify(cls, secret, hash, user)

\* cls.identify(hash)
Identify(cls, hash) ==
    CASE cls.base = "bsd_nthash" -> PrefixWrapper_identify(cls, hash)
      [] cls.base = "postgres_md5" ->
            Result(NoError, postgres_identify(hash), <<"match">>)
      [] cls.base = "nthash_mcf" -> HasManyIdents_identify(cls, hash)
      [] OTHER -> GenericHandler_identify(cls, hash)

-----------------------------------------------------------------------------
(* Handlers as a state machine: a class is chosen, configured by using(),    *)
(* hashes a secret, and verifies or identifies a hash string.               *)

\* the codec variables while the handlers are exercised
McfIdle ==
    /\ m_pc = "idle"
    /\ m_ident = <<>>
    /\ m_rounds = <<>>
    /\ m_salt = <<>>
    /\ m_chk = None
    /\ m_base = 10
    /\ m_hash = <<>>
    /\ m_src = "none"
    /\ m_op = "none"
    /\ m_pbase = 10
    /\ m_res = ParseError(NoError)

\* secrets: a run of "a" of any length up to one past the ceiling, and a tail
Secrets ==
    {Repeat("a", n) \o t :
        n \in 0..(MAX_PASSWORD_SIZE + 1), t \in TextsUpTo({"x", "A"}, MaxTail)}

\* the user keyword: text for the classes that take it, None for the others
UsersOf(base) ==
    IF base = "postgres_md5" THEN {<<>>, <<"u">>, <<"U">>}
    ELSE IF TakesUser(base) THEN {<<"u">>, <<"U">>}
    ELSE {None}

\* secrets verify() is tried with, given the secret that was hashed
VerifySecrets(secret) ==
    {secret, secret \o <<"x">>}
    \cup (IF secret = <<>> THEN {} ELSE {SubSeq(secret, 1, Len(secret) - 1)})

\* hash strings that no hash() call made: empty, bare prefixes, configuration
\* strings, foreign and damaged hashes
RawHashArgs ==
    {<<>>, <<"z">>, <<"0", "1">>,
     <<"$", "3", "$", "$">>, <<"$", "3", "$", "$", "z">>, <<"$", "N", "T", "$", "0">>,
     <<"m", "d", "5">>,
     <<"$", "1", "$">>, <<"$", "1", "$", "a">>, <<"$", "1", "$", "a", "b", "$">>,
     <<"$", "1", "$", "z", "$", "0">>, <<"$", "1", "$", "a", "$", "0", "$", "0">>}

\* the hash strings verify() and identify() are tried with: the one hash()
\* returned, its upper-case form, and the raw ones
HashArgs ==
    (IF h_pc = "hashed" /\ h_out.err = NoError
     THEN {h_out.val, upper(h_out.val)} ELSE {})
    \cup RawHashArgs

InitHandler ==
    /\ McfIdle
    /\ ExtIdle
    /\ h_pc = "class"
    /\ h_cls \in {Class(b) : b \in HandlerBases}
    /\ h_nusing = 0
    /\ h_uerr = NoError
    /\ h_secret \in Secrets
    /\ h_user \in UsersOf(h_cls.base)
    /\ h_out = Result(NoError, <<>>, <<>>)
    /\ v_op = "none"
    /\ v_secret = <<>>
    /\ v_user = None
    /\ v_hash = <<>>
    /\ v_from = "none"
    /\ v_out = Result(NoError, FALSE, <<>>)

\* cls.using(**settings): the class in use becomes the returned subclass; a
\* call that raises returns no class
DoUsing ==
    /\ h_pc = "class"
    /\ h_cls.base # "postgres_md5"
    /\ h_nusing < MaxUsing
    /\ \E st \in SettingsOf(h_cls.base) :
          /\ h_uerr' = using(h_cls, st).err
          /\ h_cls' = IF using(h_cls, st).err = NoError
                      THEN using(h_cls, st).cls ELSE h_cls
    /\ h_nusing' = h_nusing + 1
    /\ UNCHANGED <<h_pc, h_secret, h_user, h_out, v_op, v_secret, v_user, v_hash,
                   v_from, v_out>>
    /\ UNCHANGED <<mcf_vars, ext_vars>>

\* cls.hash(secret, **context)
DoHash ==
    /\ h_pc = "class"
    /\ \E gsalt \in (IF h_cls.base = "salted_mcf" THEN GeneratedSalts ELSE {None}) :
          h_out' = Hash(h_cls, h_secret, h_user, gsalt)
    /\ h_pc' = "hashed"
    /\ UNCHANGED <<h_cls, h_nusing, h_uerr, h_secret, h_user, v_op, v_secret, v_user,
                   v_hash, v_from, v_out>>
    /\ UNCHANGED <<mcf_vars, ext_vars>>

\* cls.verify(secret, hash, **context)
DoVerify ==
    /\ h_pc \in {"class", "hashed"}
    /\ \E hash \in HashArgs, secret \in VerifySecrets(h_secret),
          user \in UsersOf(h_cls.base) :
          /\ v_hash' = hash
          /\ v_from' = IF h_pc = "hashed" /\ h_out.err = NoError /\ hash = h_out.val
                       THEN "hash" ELSE "raw"
          /\ v_secret' = secret
          /\ v_user' = user
          /\ v_out' = Verify(h_cls, secret, hash, user)
    /\ v_op' = "verify"
    /\ h_pc' = "verified"
    /\ UNCHANGED <<h_cls, h_nusing, h_uerr, h_secret, h_user, h_out>>
    /\ UNCHANGED <<mcf_vars, ext_vars>>

\* cls.identify(hash); a hash that is no string (None) is among the inputs,
\* except for postgres_md5, whose identify_regexp helper is not modelled
DoIdentify ==
    /\ h_pc \in {"class", "hashed"}
    /\ \E hash \in HashArgs \cup (IF h_cls.base = "postgres_md5" THEN {} ELSE {None}) :
          /\ v_hash' = hash
          /\ v_from' = IF h_pc = "hashed" /\ h_out.err = NoError /\ hash = h_out.val
                       THEN "hash" ELSE "raw"
          /\ v_out' = Identify(h_cls, hash)
    /\ v_op' = "identify"
    /\ h_pc' = "identified"
    /\ UNCHANGED <<h_cls, h_nusing, h_uerr, h_secret, h_user, h_out, v_secret, v_user>>
    /\ UNCHANGED <<mcf_vars, ext_vars>>

NextHandler ==
    \/ DoUsing
    \/ DoHash
    \/ DoVerify
    \/ DoIdentify

SpecHandler == InitHandler /\ [][NextHandler]_vars

-----------------------------------------------------------------------------
(* Properties of hash / verify / identify *)

\* what parsing hash yields for cls: the instance from_string builds (after a
\* PrefixWrapper has unwrapped the hash), or the error
Parsed(cls, hash, user) ==
    IF cls.base = "bsd_nthash"
    THEN IF unwrap_hash(cls, hash).err # NoError
         THEN Made(unwrap_hash(cls, hash).err, NoInstance)
         ELSE from_string(wrapped(cls), unwrap_hash(cls, hash).val, user)
    ELSE from_string(cls, hash, user)

\* the last call was verify(v_secret, hash(h_secret)) with hash()'s context
VerifiedOwnHash ==
    /\ h_pc = "verified"
    /\ v_op = "verify"
    /\ v_from = "hash"
    /\ v_user = h_user

\* steps that parse the hash string or compute a checksum
WorkSteps == {"from_string", "_calc_checksum", "identify", "md5"}

Steps(trace) == {trace[i] : i \in 1..Len(trace)}

\* C5: for every handler (lmhash, nthash, msdcc, msdcc2, bsd_nthash and every
\* class using() produced) and every secret hash() accepts, verify(s, hash(s))
\* returns True when both calls get the same context keywords.
C5_VerifyOwnHash ==
    (VerifiedOwnHash /\ v_secret = h_secret)
    => /\ v_out.err = NoError
       /\ v_out.val = TRUE

C5_Witness ==
    /\ VerifiedOwnHash
    /\ v_secret = h_secret
    /\ h_cls.base = "msdcc"
    /\ h_cls.configured
    /\ h_user = <<"U">>
    /\ h_secret = <<"a", "a", "A">>
    /\ v_out.val = TRUE

\* verify(s, hash(s + 'x')) returns False for every handler, as C6 states it
C6_StatedRejectsLonger ==
    (VerifiedOwnHash /\ h_secret = v_secret \o <<"x">>)
    => /\ v_out.err = NoError
       /\ v_out.val = FALSE

\* C6 (amended): for every secret s such that hash(s + 'x') returns a hash,
\* verify(s, hash(s + 'x')) returns False for every handler other than lmhash,
\* and for lmhash when s is shorter than 14 characters; lmhash hashes only the
\* first 14 characters, so for a longer s it returns True.
C6_RejectsLongerSecret ==
    (VerifiedOwnHash /\ h_secret = v_secret \o <<"x">>)
    => /\ v_out.err = NoError
       /\ v_out.val = (h_cls.base = "lmhash" /\ Len(v_secret) >= truncate_size)

C6_Witness ==
    /\ VerifiedOwnHash
    /\ h_cls.base = "lmhash"
    /\ ~h_cls.truncate_error
    /\ Len(v_secret) = truncate_size - 1
    /\ h_secret = v_secret \o <<"x">>
    /\ v_out = Result(NoError, FALSE,
                      <<"validate_secret", "from_string", "_calc_checksum", "consteq">>)

\* C7: for every handler and every secret hash() accepts, identify(hash(secret))
\* returns True, whichever way the handler identifies: ident prefix, pattern,
\* several idents, full parse, or a PrefixWrapper's prefix.
C7_IdentifyOwnHash ==
    (h_pc = "identified" /\ v_op = "identify" /\ v_from = "hash")
    => /\ v_out.err = NoError
       /\ v_out.val = TRUE

C7_Witness ==
    /\ h_pc = "identified"
    /\ v_op = "identify"
    /\ v_from = "hash"
    /\ h_cls.base = "nthash_mcf"
    /\ h_cls.default_ident = ident_values[2]
    /\ StartsWith(v_hash, ident_values[2])
    /\ v_out.val = TRUE

C9_VerifyConfigString ==
    (/\ h_pc = "verified"
     /\ v_op = "verify"
     /\ h_cls.base # "postgres_md5"
     /\ Parsed(h_cls, v_hash, v_user).err = NoError
     /\ Parsed(h_cls, v_hash, v_user).inst.checksum = None)
    => /\ v_out.err # NoError
       /\ "_calc_checksum" \notin Steps(v_out.trace)
       /\ Len(v_secret) <= MAX_PASSWORD_SIZE
          => v_out.err = MissingDigestError(name(h_cls))

C9_Witness ==
    /\ h_pc = "verified"
    /\ v_op = "verify"
    /\ h_cls.base = "salted_mcf"
    /\ v_hash = <<"$", "1", "$", "a">>
    /\ Parsed(h_cls, v_hash, v_user).inst.salt = <<"a">>
    /\ Parsed(h_cls, v_hash, v_user).inst.checksum = None
    /\ v_out = Result(MissingDigestError("salted_mcf"), FALSE,
                      <<"validate_secret", "from_string">>)

\* C10: for every handler, hash(secret) and verify(secret, hash) with a secret
\* longer than MAX_PASSWORD_SIZE raise the size error carrying that maximum,
\* before the hash string is parsed and before any checksum is computed.
C10_SizeLimitEverywhere ==
    /\ (h_pc = "hashed" /\ Len(h_secret) > MAX_PASSWORD_SIZE)
       => /\ h_out.err = PasswordSizeError(MAX_PASSWORD_SIZE)
          /\ h_out.err.max_size = MAX_PASSWORD_SIZE
          /\ Steps(h_out.trace) \cap WorkSteps = {}
    /\ (h_pc = "verified" /\ v_op = "verify" /\ Len(v_secret) > MAX_PASSWORD_SIZE)
       => /\ v_out.err = PasswordSizeError(MAX_PASSWORD_SIZE)
          /\ v_out.err.max_size = MAX_PASSWORD_SIZE
          /\ Steps(v_out.trace) \cap WorkSteps = {}

-----------------------------------------------------------------------------
(* Integer normalization: norm_integer and HasRounds._norm_rounds *)

\* largest hard bound drawn for min_rounds / max_rounds
MaxBound == 4

ExpectedTypeError(expected, param) ==
    [type |-> "TypeError",
     msg |-> IF expected = "integer" THEN "%s must be integer, not %s"
             ELSE "%s must be %s, not %s",
     reason |-> param, handler |-> "", max_size |-> 0]

\* warn(msg, exc.PasslibHashWarning)
PasslibHashWarning(msg) == [category |-> "PasslibHashWarning", msg |-> msg]

TooLow == "%s: %s (%d) is too low, must be at least %d"
TooLarge == "%s: %s (%d) is too large, cannot be more than %d"

\* norm_integer whose relaxed mode warns and keeps the value
norm_integer_unclamped(handler, value, min, max, param, relaxed) ==
    IF ~value.int
    THEN Normed(ExpectedTypeError("integer", param), 0, <<>>)
    ELSE IF value.n < min
    THEN IF relaxed THEN Normed(NoError, value.n, <<PasslibHashWarning(TooLow)>>)
         ELSE Normed(ValueError(TooLow, handler), 0, <<>>)
    ELSE IF max # <<>> /\ max[1] # 0 /\ value.n > max[1]
    THEN IF relaxed THEN Normed(NoError, value.n, <<PasslibHashWarning(TooLarge)>>)
         ELSE Normed(ValueError(TooLarge, handler), 0, <<>>)
    ELSE Normed(NoError, value.n, <<>>)

\* norm_integer(handler, value, min, max, param, relaxed); max is <<>> for None.
\* The value clamped to min is tested against max as well.
norm_integer(handler, value, min, max, param, relaxed) ==
    IF ~value.int
    THEN Normed(ExpectedTypeError("integer", param), 0, <<>>)
    ELSE IF value.n < min /\ ~relaxed
    THEN Normed(ValueError(TooLow, handler), 0, <<>>)
    ELSE LET low == value.n < min
             v1 == IF low THEN min ELSE value.n
             w1 == IF low THEN <<PasslibHashWarning(TooLow)>> ELSE <<>>
         IN  IF max # <<>> /\ max[1] # 0 /\ v1 > max[1]
             THEN IF relaxed
                  THEN Normed(NoError, max[1], w1 \o <<PasslibHashWarning(TooLarge)>>)
                  ELSE Normed(ValueError(TooLarge, handler), 0, <<>>)
             ELSE Normed(NoError, v1, w1)

\* a class with hard rounds bounds
RoundsClass(min_rounds, max_rounds) ==
    [min_rounds |-> min_rounds, max_rounds |-> max_rounds]

\* HasRounds._norm_rounds(rounds, relaxed, param="rounds")
HasRounds_norm_rounds(cls, rounds, relaxed) ==
    norm_integer("rounds_handler", rounds, cls.min_rounds, cls.max_rounds,
                 "rounds", relaxed)

\* the classes drawn: 0 <= min_rounds <= max_rounds, or no max_rounds
RoundsClasses ==
    {c \in {RoundsClass(lo, <<hi>>) : lo \in 0..MaxBound, hi \in 1..MaxBound} :
        c.min_rounds <= c.max_rounds[1]}
    \cup {RoundsClass(lo, <<>>) : lo \in 0..MaxBound}

\* the rounds arguments drawn: integers around the bounds, and a non-integer
RoundsArgs == {IntValue(n) : n \in (0 - 1)..(MaxBound + 2)} \cup {NonInteger}

\* the other variables while normalization is exercised
NormRest ==
    /\ McfIdle
    /\ HandlerIdle
    /\ BackendIdle
    /\ ThreadIdle
    /\ WrapIdle
    /\ UsingIdle

InitNorm ==
    /\ NormRest
    /\ n_pc = "class"
    /\ n_cls \in RoundsClasses
    /\ n_value = IntValue(0)
    /\ n_relaxed = FALSE
    /\ n_res = Normed(NoError, 0, <<>>)

\* cls._norm_rounds(rounds, relaxed=...)
DoNormRounds ==
    /\ n_pc = "class"
    /\ \E value \in RoundsArgs, relaxed \in BOOLEAN :
          /\ n_value' = value
          /\ n_relaxed' = relaxed
          /\ n_res' = HasRounds_norm_rounds(n_cls, value, relaxed)
    /\ n_pc' = "normed"
    /\ UNCHANGED n_cls
    /\ UNCHANGED <<mcf_vars, handler_vars, backend_vars, thread_vars, wrap_vars, using_vars>>

NextNorm == DoNormRounds

SpecNorm == InitNorm /\ [][NextNorm]_vars

\* C11: with hard bounds [min_rounds, max_rounds], a rounds value inside the
\* bounds is returned unchanged with no warning; a value below min_rounds or
\* above max_rounds raises ValueError in strict mode and, in relaxed mode, is
\* replaced by the nearest bound with one warning; a non-integer raises
\* TypeError in both modes.
C11_NormRounds ==
    (n_pc = "normed" /\ n_cls.max_rounds # <<>>)
    => LET lo == n_cls.min_rounds
           hi == n_cls.max_rounds[1]
           v  == n_value.n
       IN  IF ~n_value.int
           THEN n_res.err.type = "TypeError" /\ n_res.warnings = <<>>
           ELSE IF lo <= v /\ v <= hi
           THEN n_res = Normed(NoError, v, <<>>)
           ELSE IF ~n_relaxed
           THEN n_res.err.type = "ValueError" /\ n_res.warnings = <<>>
           ELSE /\ n_res.err = NoError
                /\ n_res.val = IF v < lo THEN lo ELSE hi
                /\ Len(n_res.warnings) = 1
                /\ n_res.warnings[1].category = "PasslibHashWarning"

C11_Witness ==
    /\ n_pc = "normed"
    /\ n_cls = RoundsClass(2, <<4>>)
    /\ n_value = IntValue(0)
    /\ n_relaxed
    /\ n_res = Normed(NoError, 2, <<PasslibHashWarning(TooLow)>>)

-----------------------------------------------------------------------------
(* Salt normalization: HasSalt._norm_salt and _clip_to_valid_salt_size.     *)
(* The rounds variables hold the class, the argument and the result.        *)

\* largest max_salt_size drawn
MaxSaltSize == 3

\* a class with salt limits: max_salt_size is <<>> (None, no maximum) or
\* <<n>>; salt_chars is <<>> (None, any character) or <<set>>
SaltClass(sname, min_salt_size, max_salt_size, salt_chars) ==
    [name |-> sname, min_salt_size |-> min_salt_size,
     max_salt_size |-> max_salt_size, salt_chars |-> salt_chars]

\* the ValueError of a size test: its message, and the qualifier and the
\* size that the message is formatted with
SaltSizeError(msg, handler, qualifier, size) ==
    [type |-> "ValueError", msg |-> msg, reason |-> qualifier, handler |-> handler,
     max_size |-> size]

SaltSizeWarning(msg, qualifier, size) ==
    [category |-> "PasslibHashWarning", msg |-> msg, qualifier |-> qualifier,
     size |-> size]

SaltTooSmall == "salt too small (%s requires %s %d %s)"
SaltTooLarge == "salt too large (%s requires %s %d %s)"

\* bool(mx) of an optional size
Bounded(mx) == mx # <<>> /\ mx[1] # 0

\* mn == mx, with mx None or an integer
SameSize(mn, mx) == mx # <<>> /\ mx[1] = mn

\* HasSalt._truncate_salt(salt, mx)
truncate_salt(salt, mx) == SubSeq(salt, 1, IF mx < Len(salt) THEN mx ELSE Len(salt))

\* HasSalt._norm_salt that raises for an oversized salt in relaxed mode too
norm_salt_strict(cls, salt, relaxed) ==
    IF cls.salt_chars # <<>> /\ \E i \in 1..Len(salt) : salt[i] \notin cls.salt_chars[1]
    THEN Normed(ValueError("invalid characters in %s salt", cls.name), <<>>, <<>>)
    ELSE IF cls.min_salt_size # 0 /\ Len(salt) < cls.min_salt_size
    THEN Normed(SaltSizeError(SaltTooSmall, cls.name,
                              IF SameSize(cls.min_salt_size, cls.max_salt_size)
                              THEN "exactly" ELSE ">=",
                              cls.min_salt_size), <<>>, <<>>)
    ELSE IF Bounded(cls.max_salt_size) /\ Len(salt) > cls.max_salt_size[1]
    THEN Normed(SaltSizeError(SaltTooLarge, cls.name,
                              IF SameSize(cls.min_salt_size, cls.max_salt_size)
                              THEN "exactly" ELSE "<=",
                              cls.max_salt_size[1]), <<>>, <<>>)
    ELSE Normed(NoError, salt, <<>>)

\* HasSalt._norm_salt(salt, relaxed) for a text salt
norm_salt(cls, salt, relaxed) ==
    IF cls.salt_chars # <<>> /\ \E i \in 1..Len(salt) : salt[i] \notin cls.salt_chars[1]
    THEN Normed(ValueError("invalid characters in %s salt", cls.name), <<>>, <<>>)
    ELSE IF cls.min_salt_size # 0 /\ Len(salt) < cls.min_salt_size
    THEN Normed(SaltSizeError(SaltTooSmall, cls.name,
                              IF SameSize(cls.min_salt_size, cls.max_salt_size)
                              THEN "exactly" ELSE ">=",
                              cls.min_salt_size), <<>>, <<>>)
    ELSE IF Bounded(cls.max_salt_size) /\ Len(salt) > cls.max_salt_size[1]
    THEN IF relaxed
         THEN Normed(NoError, truncate_salt(salt, cls.max_salt_size[1]),
                     <<SaltSizeWarning(SaltTooLarge,
                                       IF SameSize(cls.min_salt_size, cls.max_salt_size)
                                       THEN "exactly" ELSE "<=",
                                       cls.max_salt_size[1])>>)
         ELSE Normed(SaltSizeError(SaltTooLarge, cls.name,
                                   IF SameSize(cls.min_salt_size, cls.max_salt_size)
                                   THEN "exactly" ELSE "<=",
                                   cls.max_salt_size[1]), <<>>, <<>>)
    ELSE Normed(NoError, salt, <<>>)

MustBeExactly == "%s: %s (%d) must be exactly %d"
BelowMinSaltSize == "%s: %s (%r) below min_salt_size (%d)"
AboveMaxSaltSize == "%s: %s (%r) above max_salt_size (%d)"

\* HasSalt._clip_to_valid_salt_size, "check max size", on the size that the
\* min test left
clip_to_max_salt_size(cls, salt_size, relaxed, warnings) ==
    IF Bounded(cls.max_salt_size) /\ salt_size > cls.max_salt_size[1]
    THEN IF relaxed
         THEN Normed(NoError, cls.max_salt_size[1],
                     warnings \o <<PasslibHashWarning(AboveMaxSaltSize)>>)
         ELSE Normed(ValueError(AboveMaxSaltSize, cls.name), 0, <<>>)
    ELSE Normed(NoError, salt_size, warnings)

\* HasSalt._clip_to_valid_salt_size(salt_size, param, relaxed)
HasSalt_clip_to_valid_salt_size(cls, salt_size, relaxed) ==
    IF SameSize(cls.min_salt_size, cls.max_salt_size)
    THEN IF salt_size = cls.min_salt_size THEN Normed(NoError, cls.min_salt_size, <<>>)
         ELSE IF relaxed
         THEN Normed(NoError, cls.min_salt_size, <<PasslibHashWarning(MustBeExactly)>>)
         ELSE Normed(ValueError(MustBeExactly, cls.name), 0, <<>>)
    ELSE IF salt_size < cls.min_salt_size
    THEN IF relaxed
         THEN clip_to_max_salt_size(cls, cls.min_salt_size, relaxed,
                                    <<PasslibHashWarning(BelowMinSaltSize)>>)
         ELSE Normed(ValueError(BelowMinSaltSize, cls.name), 0, <<>>)
    ELSE clip_to_max_salt_size(cls, salt_size, relaxed, <<>>)

\* the classes drawn: 0 <= min_salt_size <= max_salt_size with max_salt_size
\* at least 1, or no max_salt_size; with and without salt_chars
SaltCharsets == {<<>>, <<{"a", "b"}>>}

SaltClasses ==
    {SaltClass("salt_handler", mn, <<mx>>, sc) :
        mn \in 0..MaxSaltSize, mx \in 1..MaxSaltSize, sc \in SaltCharsets}
    \cup {SaltClass("salt_handler", mn, <<>>, sc) : mn \in 0..MaxSaltSize, sc \in SaltCharsets}

\* the salts drawn: texts up to one character past the largest maximum, with
\* a character outside salt_chars among them
SaltArgs == TextsUpTo({"a", "z"}, MaxSaltSize + 1)

\* the salt sizes drawn
SaltSizeArgs == 0..(MaxSaltSize + 1)

InitSalt ==
    /\ NormRest
    /\ n_pc = "salt_class"
    /\ n_cls \in {c \in SaltClasses :
                     c.max_salt_size = <<>> \/ c.min_salt_size <= c.max_salt_size[1]}
    /\ n_value = <<>>
    /\ n_relaxed = FALSE
    /\ n_res = Normed(NoError, <<>>, <<>>)

\* cls._norm_salt(salt, relaxed=...)
DoNormSalt ==
    /\ n_pc = "salt_class"
    /\ \E salt \in SaltArgs, relaxed \in BOOLEAN :
          /\ n_value' = salt
          /\ n_relaxed' = relaxed
          /\ n_res' = norm_salt(n_cls, salt, relaxed)
    /\ n_pc' = "salt_normed"
    /\ UNCHANGED n_cls
    /\ UNCHANGED <<mcf_vars, handler_vars, backend_vars, thread_vars, wrap_vars, using_vars>>

\* cls._clip_to_valid_salt_size(salt_size, relaxed=...)
DoClipSaltSize ==
    /\ n_pc = "salt_class"
    /\ \E salt_size \in SaltSizeArgs, relaxed \in BOOLEAN :
          /\ n_value' = salt_size
          /\ n_relaxed' = relaxed
          /\ n_res' = HasSalt_clip_to_valid_salt_size(n_cls, salt_size, relaxed)
    /\ n_pc' = "size_clipped"
    /\ UNCHANGED n_cls
    /\ UNCHANGED <<mcf_vars, handler_vars, backend_vars, thread_vars, wrap_vars, using_vars>>

NextSalt ==
    \/ DoNormSalt
    \/ DoClipSaltSize

SpecSalt == InitSalt /\ [][NextSalt]_vars

\* the salt is within the class's charset, and its length within its bounds
InSaltChars(cls, salt) ==
    cls.salt_chars = <<>> \/ \A i \in 1..Len(salt) : salt[i] \in cls.salt_chars[1]

SaltTooShort(cls, salt) == Len(salt) < cls.min_salt_size

SaltTooLong(cls, salt) == cls.max_salt_size # <<>> /\ Len(salt) > cls.max_salt_size[1]

\* what a size message says of the bound: 'exactly' for a fixed size
SaysExactly(cls, qualifier) ==
    (qualifier = "exactly") <=> SameSize(cls.min_salt_size, cls.max_salt_size)

\* C25: against [min_salt_size, max_salt_size] and salt_chars, a salt within
\* bounds and charset is returned unchanged; a salt of the charset longer than
\* max_salt_size raises ValueError in strict mode and in relaxed mode is cut
\* to its first max_salt_size characters, with a warning; a salt shorter than
\* min_salt_size, or with a character outside salt_chars, raises ValueError
\* in both modes; the size error says 'exactly N' when min equals max and a
\* range bound otherwise, in _norm_salt and in _clip_to_valid_salt_size
C25_NormSalt ==
    /\ n_pc = "salt_normed" =>
          /\ InSaltChars(n_cls, n_value) /\ ~SaltTooShort(n_cls, n_value)
             /\ ~SaltTooLong(n_cls, n_value) => n_res = Normed(NoError, n_value, <<>>)
          /\ InSaltChars(n_cls, n_value) /\ SaltTooLong(n_cls, n_value) =>
                IF n_relaxed
                THEN /\ n_res.err = NoError
                     /\ Len(n_res.val) = n_cls.max_salt_size[1]
                     /\ StartsWith(n_value, n_res.val)
                     /\ Len(n_res.warnings) = 1
                     /\ n_res.warnings[1].category = "PasslibHashWarning"
                     /\ SaysExactly(n_cls, n_res.warnings[1].qualifier)
                ELSE /\ n_res.err.type = "ValueError"
                     /\ n_res.err.max_size = n_cls.max_salt_size[1]
                     /\ SaysExactly(n_cls, n_res.err.reason)
          /\ SaltTooShort(n_cls, n_value) /\ InSaltChars(n_cls, n_value) =>
                /\ n_res.err.type = "ValueError"
                /\ n_res.err.max_size = n_cls.min_salt_size
                /\ SaysExactly(n_cls, n_res.err.reason)
          /\ ~InSaltChars(n_cls, n_value) => n_res.err.type = "ValueError"
    /\ n_pc = "size_clipped" /\ ~n_relaxed /\ n_res.err # NoError =>
          /\ n_res.err.type = "ValueError"
          /\ (n_res.err.msg = MustBeExactly)
                <=> SameSize(n_cls.min_salt_size, n_cls.max_salt_size)

\* in relaxed mode, a salt of four characters was cut to the three that a
\* class with a fixed salt size of three takes, with a warning saying
\* 'exactly'
C25_Witness ==
    /\ n_pc = "salt_normed"
    /\ n_relaxed
    /\ n_cls.min_salt_size = 3
    /\ n_cls.max_salt_size = <<3>>
    /\ n_value = <<"a", "a", "a", "a">>
    /\ n_res.err = NoError
    /\ n_res.val = <<"a", "a", "a">>
    /\ n_res.warnings = <<SaltSizeWarning(SaltTooLarge, "exactly", 3)>>

-----------------------------------------------------------------------------
(* Backend registry: BackendMixin.set_backend / get_backend / has_backend   *)
(* and HasManyBackends._set_calc_checksum_backend, with one caller.         *)

\* most names in a class's backends tuple
MaxBackends == 3
\* most registry calls made on one class
MaxCalls == 2

\* names a backends tuple is drawn from, and a name no class lists
AllBackendNames == <<"os_crypt", "builtin", "bcrypt", "bcryptor", "pybcrypt">>
UnlistedName == "zz"

\* cls.name of the multi-backend class
BackendHandler == "handler"

UnknownBackendError(hasher, backend) ==
    [type |-> "UnknownBackendError", msg |-> "%s: unknown backend: %r",
     reason |-> backend, handler |-> hasher, max_size |-> 0]

MissingBackendError(msg, backend) ==
    [type |-> "MissingBackendError", msg |-> msg, reason |-> backend,
     handler |-> BackendHandler, max_size |-> 0]

\* the refusal a backend's loader raises
PasslibSecurityError(backend) ==
    [type |-> "PasslibSecurityError", msg |-> "backend refused to load",
     reason |-> backend, handler |-> BackendHandler, max_size |-> 0]

\* what a backend's loader does in this environment: "ok" installs its
\* checksum routine and returns True, "missing" returns False, "refuse" raises
\* PasslibSecurityError
LoaderOutcomes == {"ok", "missing", "refuse"}

BackendClass(backends, loaders) == [backends |-> backends, loaders |-> loaders]

InBackends(cls, bname) == \E i \in 1..Len(cls.backends) : cls.backends[i] = bname

\* result of a step that changes class-level state
Switched(err, val, st, loaded) ==
    [err |-> err, val |-> val, st |-> st, loaded |-> loaded]

\* _set_calc_checksum_backend that installs the routine on a dry run too
set_calc_checksum_backend_always(st, func) == [st EXCEPT !.calc = func]

\* _set_calc_checksum_backend that leaves the routine in place as it is
set_calc_checksum_backend_never(st, func) == st

\* HasManyBackends._set_calc_checksum_backend(func)
set_calc_checksum_backend(st, func) ==
    IF ~st.pending.dry_run THEN [st EXCEPT !.calc = func] ELSE st

\* the loader of backend name (HasManyBackends._get_backend_loader): the error
\* raised, the value returned, and the state it leaves
loader(cls, st, bname) ==
    CASE cls.loaders[bname] = "ok" ->
            Switched(NoError, "True", set_calc_checksum_backend(st, bname), <<bname>>)
      [] cls.loaders[bname] = "missing" -> Switched(NoError, "False", st, <<bname>>)
      [] OTHER -> Switched(PasslibSecurityError(bname), "", st, <<bname>>)

\* BackendMixin._set_backend(name, dryrun)
BackendMixin_set_backend(cls, st, bname, dryrun) ==
    LET ok == loader(cls, st, bname)
    IN  IF ok.err # NoError THEN ok
        ELSE IF ok.val = "False"
        THEN Switched(MissingBackendError("%s: backend not available: %s", bname), "",
                      ok.st, ok.loaded)
        ELSE ok

\* the locked part without its "finally": the pending attributes stay as set
\* when the loader raises or reports the backend missing
set_backend_locked_no_finally(cls, st, bname, dryrun) ==
    LET orig == st.pending
        done == BackendMixin_set_backend(cls, [st EXCEPT !.pending = Pending(bname, dryrun)],
                                         bname, dryrun)
        restored == [done.st EXCEPT !.pending = orig]
    IN  IF done.err # NoError THEN Switched(done.err, "", done.st, done.loaded)
        ELSE IF ~dryrun
        THEN Switched(NoError, bname, [restored EXCEPT !.active = bname], done.loaded)
        ELSE Switched(NoError, bname, restored, done.loaded)

\* set_backend, under _backend_lock: set the pending attributes, load, restore
\* them, and commit unless this is a dry run
set_backend_locked(cls, st, bname, dryrun) ==
    LET orig == st.pending
        done == BackendMixin_set_backend(cls, [st EXCEPT !.pending = Pending(bname, dryrun)],
                                         bname, dryrun)
        restored == [done.st EXCEPT !.pending = orig]
    IN  IF done.err # NoError THEN Switched(done.err, "", restored, done.loaded)
        ELSE IF ~dryrun
        THEN Switched(NoError, bname, [restored EXCEPT !.active = bname], done.loaded)
        ELSE Switched(NoError, bname, restored, done.loaded)

\* set_backend(name, dryrun) that skips the validation of the name
set_backend_named_unvalidated(cls, st, bname, dryrun) ==
    IF bname # "" /\ bname = st.active
    THEN Switched(NoError, st.active, st, <<>>)
    ELSE IF ~InBackends(cls, bname)
    THEN Switched(NoError, bname, [st EXCEPT !.active = bname], <<>>)
    ELSE set_backend_locked(cls, st, bname, dryrun)

\* set_backend(name, dryrun) for a name other than "any" and "default"
set_backend_named(cls, st, bname, dryrun) ==
    IF bname # "" /\ bname = st.active
    THEN Switched(NoError, st.active, st, <<>>)
    ELSE IF ~InBackends(cls, bname)
    THEN Switched(UnknownBackendError(BackendHandler, bname), "", st, <<>>)
    ELSE set_backend_locked(cls, st, bname, dryrun)

RECURSIVE pick_backend_raising(_, _, _, _, _, _)
RECURSIVE pick_backend(_, _, _, _, _, _)

\* the body of the loop that raises the first refusal at once
pick_next_raising(cls, r, i, default_error, loaded, dryrun) ==
    IF r.err.type = "MissingBackendError"
    THEN pick_backend_raising(cls, r.st, i + 1, default_error, loaded \o r.loaded, dryrun)
    ELSE Switched(r.err, r.val, r.st, loaded \o r.loaded)

\* the body of the "any" / "default" loop, given what set_backend(name) did (r):
\* a missing backend is skipped, a refusal is kept as default_error if it is
\* the first, anything else ends the loop
pick_next(cls, r, i, default_error, loaded, dryrun) ==
    IF r.err.type \in {"MissingBackendError", "PasslibSecurityError"}
    THEN pick_backend(cls, r.st, i + 1,
                      IF r.err.type = "PasslibSecurityError" /\ default_error = NoError
                      THEN r.err ELSE default_error,
                      loaded \o r.loaded, dryrun)
    ELSE Switched(r.err, r.val, r.st, loaded \o r.loaded)

\* the "any" / "default" loop that raises the first refusal at once
pick_backend_raising(cls, st, i, default_error, loaded, dryrun) ==
    IF i > Len(cls.backends)
    THEN Switched(MissingBackendError("%s: no backends available", ""), "", st, loaded)
    ELSE pick_next_raising(cls, set_backend_named(cls, st, cls.backends[i], dryrun), i,
                           default_error, loaded, dryrun)

\* set_backend("any" / "default"): the loop over cls.backends from index i,
\* with the first refusal seen so far in default_error
pick_backend(cls, st, i, default_error, loaded, dryrun) ==
    IF i > Len(cls.backends)
    THEN IF default_error = NoError
         THEN Switched(MissingBackendError("%s: no backends available", ""), "", st, loaded)
         ELSE Switched(default_error, "", st, loaded)
    ELSE pick_next(cls, set_backend_named(cls, st, cls.backends[i], dryrun), i,
                   default_error, loaded, dryrun)

\* set_backend that loads again although a backend is active
set_backend_reloading(cls, st, bname, dryrun) ==
    IF bname \in {"any", "default"}
    THEN pick_backend(cls, st, 1, NoError, <<>>, dryrun)
    ELSE set_backend_named(cls, st, bname, dryrun)

\* BackendMixin.set_backend(name="any", dryrun=False)
set_backend(cls, st, bname, dryrun) ==
    IF bname = "any" /\ st.active # NoBackend
    THEN Switched(NoError, st.active, st, <<>>)
    ELSE IF bname \in {"any", "default"}
    THEN pick_backend(cls, st, 1, NoError, <<>>, dryrun)
    ELSE set_backend_named(cls, st, bname, dryrun)

\* BackendMixin.get_backend()
get_backend(cls, st) ==
    IF st.active = NoBackend
    THEN LET r == set_backend(cls, st, "any", FALSE)
         IN  IF r.err # NoError THEN r
             ELSE Switched(NoError, r.st.active, r.st, r.loaded)
    ELSE Switched(NoError, st.active, st, <<>>)

\* BackendMixin.has_backend(name="any")
has_backend(cls, st, bname) ==
    LET r == set_backend(cls, st, bname, TRUE)
    IN  IF r.err = NoError THEN Switched(NoError, "True", r.st, r.loaded)
        ELSE IF r.err.type \in {"MissingBackendError", "PasslibSecurityError"}
        THEN Switched(NoError, "False", r.st, r.loaded)
        ELSE r

\* the classes drawn: a backends tuple and an outcome for each loader
BackendsTuple(k) == SubSeq(AllBackendNames, 1, k)

BackendClasses ==
    UNION {{BackendClass(BackendsTuple(k), f) :
                f \in [{BackendsTuple(k)[i] : i \in 1..k} -> LoaderOutcomes]} :
           k \in 1..MaxBackends}

\* the names a call is made with
CallNames(cls) ==
    {"any", "default", UnlistedName} \cup {cls.backends[i] : i \in 1..Len(cls.backends)}

\* the calls made: set_backend(name, dryrun), get_backend(), has_backend(name)
Call(op, bname, dryrun) == [op |-> op, name |-> bname, dryrun |-> dryrun]

Calls(cls) ==
    {Call("set_backend", n, d) : n \in CallNames(cls), d \in BOOLEAN}
    \cup {Call("get_backend", "any", FALSE)}
    \cup {Call("has_backend", n, TRUE) : n \in CallNames(cls)}

\* the call, applied to the class-level state
Apply(cls, st, call) ==
    CASE call.op = "set_backend" -> set_backend(cls, st, call.name, call.dryrun)
      [] call.op = "get_backend" -> get_backend(cls, st)
      [] OTHER -> has_backend(cls, st, call.name)

\* the other variables while the registry is exercised
BackendRest ==
    /\ McfIdle
    /\ HandlerIdle
    /\ NormIdle
    /\ ThreadIdle
    /\ WrapIdle
    /\ UsingIdle

InitBackend ==
    /\ BackendRest
    /\ b_pc = "class"
    /\ b_cls \in BackendClasses
    /\ b_st = Unresolved
    /\ b_ncalls = 0
    /\ b_call = Call("none", "any", FALSE)
    /\ b_before = Unresolved
    /\ b_out = CallResult(NoError, "", <<>>)

\* the call returns or raises: the class-level state it leaves, and its result
Returned(r) ==
    /\ b_st' = r.st
    /\ b_out' = CallResult(r.err, r.val, r.loaded)

\* one call of the public registry interface
DoCall(call) ==
    /\ b_pc \in {"class", "called"}
    /\ b_ncalls < MaxCalls
    /\ b_call' = call
    /\ b_before' = b_st
    /\ Returned(Apply(b_cls, b_st, call))
    /\ b_ncalls' = b_ncalls + 1
    /\ b_pc' = "called"
    /\ UNCHANGED b_cls
    /\ UNCHANGED <<mcf_vars, handler_vars, norm_vars, thread_vars, wrap_vars, using_vars>>

DoSetBackend == \E c \in {k \in Calls(b_cls) : k.op = "set_backend"} : DoCall(c)
DoGetBackend == \E c \in {k \in Calls(b_cls) : k.op = "get_backend"} : DoCall(c)
DoHasBackend == \E c \in {k \in Calls(b_cls) : k.op = "has_backend"} : DoCall(c)

NextBackend ==
    \/ DoSetBackend
    \/ DoGetBackend
    \/ DoHasBackend

SpecBackend == InitBackend /\ [][NextBackend]_vars

-----------------------------------------------------------------------------
(* Properties of the backend registry *)

\* indices of the backends whose loader succeeds / refuses
LoadableAt(cls) == {i \in 1..Len(cls.backends) : cls.loaders[cls.backends[i]] = "ok"}
RefusingAt(cls) == {i \in 1..Len(cls.backends) : cls.loaders[cls.backends[i]] = "refuse"}

\* least element of a non-empty set of indices
First(S) == CHOOSE i \in S : \A j \in S : i <= j

\* the last call was made on a class without an active backend
CalledUnresolved ==
    /\ b_pc = "called"
    /\ b_before.active = NoBackend

\* C12: set_backend("any") on a class with no active backend skips a backend
\* whose loader raises a security refusal and activates the first backend
\* that loads; when no backend loads and a loader refused, it raises that
\* refusal, not a missing-backend error, and no backend becomes active.
C12_AnySkipsRefusal ==
    (/\ CalledUnresolved
     /\ b_call = Call("set_backend", "any", FALSE)
     /\ RefusingAt(b_cls) # {})
    => IF LoadableAt(b_cls) # {}
       THEN /\ b_out.err = NoError
            /\ b_out.val = b_cls.backends[First(LoadableAt(b_cls))]
            /\ b_st.active = b_cls.backends[First(LoadableAt(b_cls))]
            /\ b_st.calc = b_st.active
            /\ b_out.loaded = SubSeq(b_cls.backends, 1, First(LoadableAt(b_cls)))
       ELSE /\ b_out.err = PasslibSecurityError(b_cls.backends[First(RefusingAt(b_cls))])
            /\ b_out.err.type # "MissingBackendError"
            /\ b_out.loaded = b_cls.backends
            /\ b_st = Unresolved

C12_Witness ==
    /\ CalledUnresolved
    /\ b_call = Call("set_backend", "any", FALSE)
    /\ b_cls.backends = <<"os_crypt", "builtin">>
    /\ b_cls.loaders["os_crypt"] = "refuse"
    /\ b_cls.loaders["builtin"] = "ok"
    /\ b_out = CallResult(NoError, "builtin", <<"os_crypt", "builtin">>)
    /\ b_st.active = "builtin"

\* C13: set_backend(name) with a name that is not "any", not "default" and
\* not in cls.backends raises the unknown-backend error carrying the handler
\* and the name, invokes no loader and leaves the active backend unchanged.
C13_UnknownBackend ==
    (/\ b_pc = "called"
     /\ b_call.op = "set_backend"
     /\ b_call.name \notin {"any", "default"}
     /\ ~InBackends(b_cls, b_call.name))
    => /\ b_out.err.type = "UnknownBackendError"
       /\ b_out.err.handler = BackendHandler
       /\ b_out.err.reason = b_call.name
       /\ b_out.loaded = <<>>
       /\ b_st = b_before

C13_Witness ==
    /\ b_pc = "called"
    /\ b_call = Call("set_backend", UnlistedName, FALSE)
    /\ b_before.active = "os_crypt"
    /\ b_st.active = "os_crypt"
    /\ b_out.err = UnknownBackendError(BackendHandler, UnlistedName)

\* C14: set_backend(name, dryrun=True) and has_backend(name) validate the
\* name and invoke the loaders as a real switch does, and leave the active
\* backend's name and the installed checksum routine as they were, whatever
\* the prior state and the loaders' outcomes.
C14_DryRunFrame ==
    (/\ b_pc = "called"
     /\ \/ b_call.op = "has_backend"
        \/ b_call.op = "set_backend" /\ b_call.dryrun)
    => /\ b_st.active = b_before.active
       /\ b_st.calc = b_before.calc
       /\ b_st.pending = b_before.pending
       /\ b_out.loaded = set_backend(b_cls, b_before, b_call.name, FALSE).loaded
       /\ b_call.op = "set_backend"
          => b_out.err = set_backend(b_cls, b_before, b_call.name, FALSE).err

C14_Witness ==
    /\ b_pc = "called"
    /\ b_call = Call("has_backend", "builtin", TRUE)
    /\ b_before = BackendState("os_crypt", "os_crypt", Pending(NoBackend, FALSE))
    /\ b_cls.loaders["builtin"] = "ok"
    /\ b_out = CallResult(NoError, "True", <<"builtin">>)
    /\ b_st = b_before

\* C15: has_backend(name) returns True when the named backend is available,
\* False when it is not available, and None when it is present but will not
\* load because of a security issue.
C15_HasBackendThreeValued ==
    (/\ b_pc = "called"
     /\ b_call.op = "has_backend"
     /\ InBackends(b_cls, b_call.name)
     /\ b_call.name # b_before.active)
    => /\ b_out.err = NoError
       /\ b_out.val = CASE b_cls.loaders[b_call.name] = "ok" -> "True"
                        [] b_cls.loaders[b_call.name] = "missing" -> "False"
                        [] OTHER -> "None"

\* C16: on a class with no active backend get_backend() activates and returns
\* the first name of cls.backends whose loader succeeds, and raises the
\* missing-backend error, leaving the class unresolved, when no loader
\* succeeds and none refused; once a backend is active, get_backend() and
\* set_backend("any") return the active name and invoke no loader.
C16_GetBackend ==
    /\ (CalledUnresolved /\ b_call.op = "get_backend")
       => IF LoadableAt(b_cls) # {}
          THEN /\ b_out.err = NoError
               /\ b_out.val = b_cls.backends[First(LoadableAt(b_cls))]
               /\ b_st.active = b_out.val
               /\ b_out.loaded = SubSeq(b_cls.backends, 1, First(LoadableAt(b_cls)))
          ELSE RefusingAt(b_cls) = {}
               => /\ b_out.err.type = "MissingBackendError"
                  /\ b_st = Unresolved
    /\ (/\ b_pc = "called"
        /\ b_before.active # NoBackend
        /\ \/ b_call.op = "get_backend"
           \/ b_call.op = "set_backend" /\ b_call.name = "any")
       => /\ b_out = CallResult(NoError, b_before.active, <<>>)
          /\ b_st = b_before

C16_Witness ==
    /\ b_pc = "called"
    /\ b_ncalls = 2
    /\ b_call.op = "get_backend"
    /\ b_cls.backends = <<"os_crypt", "builtin">>
    /\ b_cls.loaders["os_crypt"] = "ok"
    /\ b_before.active = "builtin"
    /\ b_out = CallResult(NoError, "builtin", <<>>)

\* C29: a set_backend call that fails leaves the previously active backend
\* name unchanged, and after any set_backend call returns or raises, the
\* class's pending-backend and pending-dry-run markers have the values they
\* had before the call.
C29_FailedSwitchFrame ==
    (b_pc = "called" /\ b_call.op = "set_backend")
    => /\ b_out.err # NoError => b_st.active = b_before.active
       /\ b_st.pending.backend = b_before.pending.backend
       /\ b_st.pending.dry_run = b_before.pending.dry_run

C29_Witness ==
    /\ b_pc = "called"
    /\ b_call = Call("set_backend", "builtin", FALSE)
    /\ b_before.active = "os_crypt"
    /\ b_cls.loaders["builtin"] = "refuse"
    /\ b_out.err = PasslibSecurityError("builtin")
    /\ b_out.loaded = <<"builtin">>
    /\ b_st = b_before

-----------------------------------------------------------------------------
(* Backend registry with several threads: set_backend step by step, with    *)
(* the lock it takes around loading and committing.                         *)

Threads == {"t1", "t2"}
ThreadedClasses == {"c1", "c2"}
ThreadedBackends == <<"os_crypt", "builtin">>

NoThread == "none"

\* a lock per class instead of the module-level lock
backend_lock_per_class(cls) == cls

\* the lock set_backend takes: the module-level _backend_lock, whatever the class
backend_lock(cls) == "_backend_lock"

Locks == {backend_lock(c) : c \in ThreadedClasses}

\* threading.RLock: free, or held by its owner count times
RLock(owner, count) == [owner |-> owner, count |-> count]

\* RLock.acquire() returns for thread t
CanAcquire(lock, t) == lock.owner \in {NoThread, t}

acquire(lock, t) == RLock(t, lock.count + 1)

release(lock) ==
    IF lock.count = 1 THEN RLock(NoThread, 0) ELSE RLock(lock.owner, lock.count - 1)

ThreadCall(cls, bname, dryrun) == [cls |-> cls, name |-> bname, dryrun |-> dryrun]

\* a thread's hash() / verify() call: where it stands ("none" outside such a
\* call, "call" before the checksum routine is looked up, "stub" inside the
\* lazy stub, then its outcome) and the backend routine that computed
HashCall(at, routine) == [at |-> at, routine |-> routine]

NoHashCall == HashCall("none", NoBackend)

ThreadCalls ==
    {ThreadCall(c, n, d) :
        c \in ThreadedClasses,
        n \in {"any", "default"} \cup {ThreadedBackends[i] : i \in 1..Len(ThreadedBackends)},
        d \in BOOLEAN}

\* the other variables while the threads run
ThreadRest ==
    /\ McfIdle
    /\ HandlerIdle
    /\ NormIdle
    /\ BackendIdle
    /\ WrapIdle
    /\ UsingIdle

InitThreads ==
    /\ ThreadRest
    /\ k_pc = [t \in Threads |-> "idle"]
    /\ k_call = [t \in Threads |-> ThreadCall("c1", "any", FALSE)]
    /\ k_idx = [t \in Threads |-> 0]
    /\ k_cur = [t \in Threads |-> NoBackend]
    /\ k_orig = [t \in Threads |-> Pending(NoBackend, FALSE)]
    /\ k_ok = [t \in Threads |-> "none"]
    /\ k_lock = [l \in Locks |-> RLock(NoThread, 0)]
    /\ k_cstate = [c \in ThreadedClasses |-> Unresolved]
    /\ k_hash = [t \in Threads |-> NoHashCall]

ThreadFrame == UNCHANGED <<mcf_vars, handler_vars, norm_vars, backend_vars, wrap_vars, using_vars>>

\* a thread calls cls.set_backend(name, dryrun)
TCall(t) ==
    /\ k_pc[t] = "idle"
    /\ \E call \in ThreadCalls : k_call' = [k_call EXCEPT ![t] = call]
    /\ k_pc' = [k_pc EXCEPT ![t] = "check"]
    /\ k_idx' = [k_idx EXCEPT ![t] = 0]
    /\ k_cur' = [k_cur EXCEPT ![t] = NoBackend]
    /\ k_ok' = [k_ok EXCEPT ![t] = "none"]
    /\ UNCHANGED <<k_orig, k_lock, k_cstate>>
    /\ UNCHANGED k_hash
    /\ ThreadFrame

\* "check if active backend is acceptable", then the choice of the path
TCheck(t) ==
    /\ k_pc[t] = "check"
    /\ LET call == k_call[t]
           active == k_cstate[call.cls].active
       IN  IF (call.name = "any" /\ active # NoBackend) \/ call.name = active
           THEN /\ k_pc' = [k_pc EXCEPT ![t] = "done"]
                /\ UNCHANGED <<k_idx, k_cur>>
           ELSE IF call.name \in {"any", "default"}
           THEN /\ k_pc' = [k_pc EXCEPT ![t] = "pick"]
                /\ k_idx' = [k_idx EXCEPT ![t] = 1]
                /\ UNCHANGED k_cur
           ELSE /\ k_pc' = [k_pc EXCEPT ![t] = "acquire"]
                /\ k_cur' = [k_cur EXCEPT ![t] = call.name]
                /\ UNCHANGED k_idx
    /\ UNCHANGED <<k_call, k_orig, k_ok, k_lock, k_cstate>>
    /\ UNCHANGED k_hash
    /\ ThreadFrame

\* one turn of the "any" / "default" loop: cls.set_backend(backends[idx])
TPick(t) ==
    /\ k_pc[t] = "pick"
    /\ IF k_idx[t] > Len(ThreadedBackends)
       THEN /\ k_pc' = [k_pc EXCEPT ![t] = "done"]
            /\ UNCHANGED k_cur
       ELSE IF ThreadedBackends[k_idx[t]] = k_cstate[k_call[t].cls].active
       THEN /\ k_pc' = [k_pc EXCEPT ![t] = "done"]
            /\ UNCHANGED k_cur
       ELSE /\ k_pc' = [k_pc EXCEPT ![t] = "acquire"]
            /\ k_cur' = [k_cur EXCEPT ![t] = ThreadedBackends[k_idx[t]]]
    /\ UNCHANGED <<k_call, k_idx, k_orig, k_ok, k_lock, k_cstate>>
    /\ UNCHANGED k_hash
    /\ ThreadFrame

\* with _backend_lock: (enter)
TAcquire(t) ==
    /\ k_pc[t] = "acquire"
    /\ CanAcquire(k_lock[backend_lock(k_call[t].cls)], t)
    /\ k_lock' = [k_lock EXCEPT ![backend_lock(k_call[t].cls)] = acquire(@, t)]
    /\ k_pc' = [k_pc EXCEPT ![t] = "set_pending"]
    /\ UNCHANGED <<k_call, k_idx, k_cur, k_orig, k_ok, k_cstate>>
    /\ UNCHANGED k_hash
    /\ ThreadFrame

\* orig = pending; cls._pending_backend = name; cls._pending_dry_run = dryrun
TSetPending(t) ==
    /\ k_pc[t] = "set_pending"
    /\ k_orig' = [k_orig EXCEPT ![t] = k_cstate[k_call[t].cls].pending]
    /\ k_cstate' = [k_cstate EXCEPT ![k_call[t].cls].pending =
                        Pending(k_cur[t], k_call[t].dryrun)]
    /\ k_pc' = [k_pc EXCEPT ![t] = "load"]
    /\ UNCHANGED <<k_call, k_idx, k_cur, k_ok, k_lock>>
    /\ UNCHANGED k_hash
    /\ ThreadFrame

\* cls._set_backend(name, dryrun): the loader runs
TLoad(t) ==
    /\ k_pc[t] = "load"
    /\ \E outcome \in LoaderOutcomes :
          /\ k_ok' = [k_ok EXCEPT ![t] = outcome]
          /\ k_cstate' = IF outcome = "ok"
                         THEN [k_cstate EXCEPT ![k_call[t].cls] =
                                   set_calc_checksum_backend(@, k_cur[t])]
                         ELSE k_cstate
    /\ k_pc' = [k_pc EXCEPT ![t] = "restore"]
    /\ UNCHANGED <<k_call, k_idx, k_cur, k_orig, k_lock>>
    /\ UNCHANGED k_hash
    /\ ThreadFrame

\* finally: the pending attributes are restored
TRestore(t) ==
    /\ k_pc[t] = "restore"
    /\ k_cstate' = [k_cstate EXCEPT ![k_call[t].cls].pending = k_orig[t]]
    /\ k_pc' = [k_pc EXCEPT ![t] = IF k_ok[t] = "ok" THEN "commit" ELSE "release"]
    /\ UNCHANGED <<k_call, k_idx, k_cur, k_orig, k_ok, k_lock>>
    /\ UNCHANGED k_hash
    /\ ThreadFrame

\* if not dryrun: cls.__backend = name
TCommit(t) ==
    /\ k_pc[t] = "commit"
    /\ k_cstate' = IF k_call[t].dryrun THEN k_cstate
                   ELSE [k_cstate EXCEPT ![k_call[t].cls].active = k_cur[t]]
    /\ k_pc' = [k_pc EXCEPT ![t] = "release"]
    /\ UNCHANGED <<k_call, k_idx, k_cur, k_orig, k_ok, k_lock>>
    /\ UNCHANGED k_hash
    /\ ThreadFrame

\* with _backend_lock: (exit), by return or by the loader's exception; the
\* "any" / "default" loop goes on after a failed load
TRelease(t) ==
    /\ k_pc[t] = "release"
    /\ k_lock' = [k_lock EXCEPT ![backend_lock(k_call[t].cls)] = release(@)]
    /\ IF k_ok[t] # "ok" /\ k_idx[t] > 0
       THEN /\ k_pc' = [k_pc EXCEPT ![t] = "pick"]
            /\ k_idx' = [k_idx EXCEPT ![t] = @ + 1]
       ELSE /\ k_pc' = [k_pc EXCEPT ![t] = "done"]
            /\ UNCHANGED k_idx
    /\ UNCHANGED <<k_call, k_cur, k_orig, k_ok, k_cstate>>
    /\ UNCHANGED k_hash
    /\ ThreadFrame

\* set_backend returns or raises to the thread that called it directly; the
\* call's locals are gone
TReturn(t) ==
    /\ k_pc[t] = "done"
    /\ k_hash[t] = NoHashCall
    /\ k_pc' = [k_pc EXCEPT ![t] = "idle"]
    /\ k_call' = [k_call EXCEPT ![t] = ThreadCall("c1", "any", FALSE)]
    /\ k_idx' = [k_idx EXCEPT ![t] = 0]
    /\ k_cur' = [k_cur EXCEPT ![t] = NoBackend]
    /\ k_orig' = [k_orig EXCEPT ![t] = Pending(NoBackend, FALSE)]
    /\ k_ok' = [k_ok EXCEPT ![t] = "none"]
    /\ UNCHANGED <<k_lock, k_cstate>>
    /\ UNCHANGED k_hash
    /\ ThreadFrame

\* a thread calls hash() or verify() on an instance of cls: _calc_checksum
\* is entered; the set_backend() its stub may make is the call kept in k_call
THash(t) ==
    /\ k_pc[t] = "idle"
    /\ \E cls \in ThreadedClasses :
          k_call' = [k_call EXCEPT ![t] = ThreadCall(cls, "any", FALSE)]
    /\ k_pc' = [k_pc EXCEPT ![t] = "dispatch"]
    /\ k_hash' = [k_hash EXCEPT ![t] = HashCall("call", NoBackend)]
    /\ UNCHANGED <<k_idx, k_cur, k_orig, k_ok, k_lock, k_cstate>>
    /\ ThreadFrame

\* self._calc_checksum_backend(secret): the attribute is looked up, and is
\* the stub or the routine a backend installed; an installed routine computes
TDispatch(t) ==
    /\ k_pc[t] = "dispatch"
    /\ LET calc == k_cstate[k_call[t].cls].calc
       IN  IF calc = Unresolved.calc
           THEN /\ k_pc' = [k_pc EXCEPT ![t] = "stub"]
                /\ k_hash' = [k_hash EXCEPT ![t] = HashCall("stub", NoBackend)]
           ELSE /\ k_pc' = [k_pc EXCEPT ![t] = "hashed"]
                /\ k_hash' = [k_hash EXCEPT ![t] = HashCall("computed", calc)]
    /\ UNCHANGED <<k_call, k_idx, k_cur, k_orig, k_ok, k_lock, k_cstate>>
    /\ ThreadFrame

\* _stub_requires_backend, first test: "if cls.__backend: raise AssertionError"
stub_requires_backend(st) == st.active # NoBackend

\* the stub runs: it raises, or calls cls.set_backend()
TStub(t) ==
    /\ k_pc[t] = "stub"
    /\ IF stub_requires_backend(k_cstate[k_call[t].cls])
       THEN /\ k_pc' = [k_pc EXCEPT ![t] = "hashed"]
            /\ k_hash' = [k_hash EXCEPT ![t] = HashCall("lazy_loader", NoBackend)]
       ELSE /\ k_pc' = [k_pc EXCEPT ![t] = "check"]
            /\ UNCHANGED k_hash
    /\ UNCHANGED <<k_call, k_idx, k_cur, k_orig, k_ok, k_lock, k_cstate>>
    /\ ThreadFrame

\* cls.set_backend() is back in the stub: its error goes up, or "if not
\* cls.__backend: raise AssertionError", or the attribute is looked up again
TStubReturn(t) ==
    /\ k_pc[t] = "done"
    /\ k_hash[t] # NoHashCall
    /\ IF k_idx[t] > Len(ThreadedBackends)
       THEN /\ k_pc' = [k_pc EXCEPT ![t] = "hashed"]
            /\ k_hash' = [k_hash EXCEPT ![t] = HashCall("missing", NoBackend)]
       ELSE IF k_cstate[k_call[t].cls].active = NoBackend
       THEN /\ k_pc' = [k_pc EXCEPT ![t] = "hashed"]
            /\ k_hash' = [k_hash EXCEPT ![t] = HashCall("no_default", NoBackend)]
       ELSE /\ k_pc' = [k_pc EXCEPT ![t] = "dispatch"]
            /\ k_hash' = [k_hash EXCEPT ![t] = HashCall("call", NoBackend)]
    /\ k_idx' = [k_idx EXCEPT ![t] = 0]
    /\ k_cur' = [k_cur EXCEPT ![t] = NoBackend]
    /\ k_orig' = [k_orig EXCEPT ![t] = Pending(NoBackend, FALSE)]
    /\ k_ok' = [k_ok EXCEPT ![t] = "none"]
    /\ UNCHANGED <<k_call, k_lock, k_cstate>>
    /\ ThreadFrame

\* hash() / verify() returns or raises
THashReturn(t) ==
    /\ k_pc[t] = "hashed"
    /\ k_pc' = [k_pc EXCEPT ![t] = "idle"]
    /\ k_call' = [k_call EXCEPT ![t] = ThreadCall("c1", "any", FALSE)]
    /\ k_hash' = [k_hash EXCEPT ![t] = NoHashCall]
    /\ UNCHANGED <<k_idx, k_cur, k_orig, k_ok, k_lock, k_cstate>>
    /\ ThreadFrame

NextThreads ==
    \/ \E t \in Threads : TCall(t)
    \/ \E t \in Threads : TCheck(t)
    \/ \E t \in Threads : TPick(t)
    \/ \E t \in Threads : TAcquire(t)
    \/ \E t \in Threads : TSetPending(t)
    \/ \E t \in Threads : TLoad(t)
    \/ \E t \in Threads : TRestore(t)
    \/ \E t \in Threads : TCommit(t)
    \/ \E t \in Threads : TRelease(t)
    \/ \E t \in Threads : TReturn(t)
    \/ \E t \in Threads : THash(t)
    \/ \E t \in Threads : TDispatch(t)
    \/ \E t \in Threads : TStub(t)
    \/ \E t \in Threads : TStubReturn(t)
    \/ \E t \in Threads : THashReturn(t)

SpecThreads == InitThreads /\ [][NextThreads]_vars

\* positions from the loader's invocation to the recording of the active name
LoadAndCommit == {"set_pending", "load", "restore", "commit", "release"}

InSection(t) == k_pc[t] \in LoadAndCommit

\* C17: across all threads and all handler classes, at most one thread at a
\* time is inside the load-and-commit section of set_backend, so the loader
\* and commit steps of two backend switches never interleave.
C17_OneThreadInSection ==
    k_pc # <<>>
    => \A t1 \in Threads, t2 \in Threads :
          (t1 # t2 /\ InSection(t1)) => ~InSection(t2)

C17_Witness ==
    /\ k_pc # <<>>
    /\ k_pc["t1"] = "commit"
    /\ k_call["t1"].cls = "c1"
    /\ k_pc["t2"] = "acquire"
    /\ k_call["t2"].cls = "c2"
    /\ k_lock[backend_lock("c2")] = RLock("t1", 1)

-----------------------------------------------------------------------------
(* PrefixWrapper with any prefix and orig_prefix, around nthash (a           *)
(* StaticHandler) and the MCF nthash (HasManyIdents)                         *)

\* longest text appended to a prefix to make an input string
MaxSuffix == 2

\* the prefix / orig_prefix values a wrapper is built with
Prefixes == {<<>>, <<"$">>, <<"x">>, bsd_prefix, ident_values[2]}

\* the wrapped classes: nthash, the MCF nthash, and the MCF nthash configured
\* with its second ident as default
WrappedClasses ==
    {Class("nthash"), Class("nthash_mcf"),
     [Class("nthash_mcf") EXCEPT !.default_ident = ident_values[2], !.configured = TRUE]}

\* PrefixWrapper(name, wrapped, prefix, orig_prefix)
Wrappers ==
    {Wrapper("wrapper", c, p, o) : c \in WrappedClasses, p \in Prefixes, o \in Prefixes}

\* the strings _wrap_hash and _unwrap_hash are tried with
WrapStrings == {p \o t : p \in Prefixes, t \in TextsUpTo({"$", "x", "0"}, MaxSuffix)}

\* the secrets the wrapped handler hashes
WrapSecrets == {<<>>, <<"a">>, <<"a", "x">>}

\* PrefixWrapper.identify without the startswith test before _unwrap_hash
Wrapper_identify_unguarded(self, hash) ==
    IF hash = None
    THEN Result(ExpectedStringError("hash"), FALSE, <<"to_unicode_for_identify">>)
    ELSE IF Wrapper_unwrap_hash(self, hash).err # NoError
    THEN Result(Wrapper_unwrap_hash(self, hash).err, FALSE,
                <<"to_unicode_for_identify", "_unwrap_hash">>)
    ELSE LET inner == Identify(self.wrapped, Wrapper_unwrap_hash(self, hash).val)
         IN  Result(inner.err, inner.val,
                    <<"to_unicode_for_identify", "_unwrap_hash">> \o inner.trace)

\* PrefixWrapper.identify(hash)
Wrapper_identify(self, hash) ==
    IF hash = None
    THEN Result(ExpectedStringError("hash"), FALSE, <<"to_unicode_for_identify">>)
    ELSE IF ~StartsWith(hash, self.prefix)
    THEN Result(NoError, FALSE, <<"to_unicode_for_identify", "startswith">>)
    ELSE IF Wrapper_unwrap_hash(self, hash).err # NoError
    THEN Result(Wrapper_unwrap_hash(self, hash).err, FALSE,
                <<"to_unicode_for_identify", "startswith", "_unwrap_hash">>)
    ELSE LET inner == Identify(self.wrapped, Wrapper_unwrap_hash(self, hash).val)
         IN  Result(inner.err, inner.val,
                    <<"to_unicode_for_identify", "startswith", "_unwrap_hash">>
                    \o inner.trace)

\* the other variables while a wrapper is exercised
WrapRest ==
    /\ McfIdle
    /\ HandlerIdle
    /\ NormIdle
    /\ BackendIdle
    /\ ThreadIdle
    /\ UsingIdle

InitWrap ==
    /\ WrapRest
    /\ w_pc = "wrapper"
    /\ w_self \in Wrappers
    /\ w_op = "none"
    /\ w_hash = <<>>
    /\ w_first = Unwrapped(NoError, <<>>)
    /\ w_second = Unwrapped(NoError, <<>>)
    /\ w_idw = Result(NoError, FALSE, <<>>)
    /\ w_idh = Result(NoError, FALSE, <<>>)

WrapFrame == UNCHANGED <<mcf_vars, handler_vars, norm_vars, backend_vars, thread_vars, using_vars>>

\* self._unwrap_hash(self._wrap_hash(hash)); an error of the first call ends it
DoWrapUnwrap ==
    /\ w_pc = "wrapper"
    /\ \E hash \in WrapStrings :
          /\ w_hash' = hash
          /\ w_first' = Wrapper_wrap_hash(w_self, hash)
          /\ w_second' = IF Wrapper_wrap_hash(w_self, hash).err # NoError
                         THEN Wrapper_wrap_hash(w_self, hash)
                         ELSE Wrapper_unwrap_hash(w_self,
                                                  Wrapper_wrap_hash(w_self, hash).val)
    /\ w_op' = "wrap_unwrap"
    /\ w_pc' = "called"
    /\ w_idw' = Result(NoError, FALSE, <<>>)
    /\ w_idh' = Result(NoError, FALSE, <<>>)
    /\ UNCHANGED w_self
    /\ WrapFrame

\* self._wrap_hash(self._unwrap_hash(hash)); an error of the first call ends it
DoUnwrapWrap ==
    /\ w_pc = "wrapper"
    /\ \E hash \in WrapStrings :
          /\ w_hash' = hash
          /\ w_first' = Wrapper_unwrap_hash(w_self, hash)
          /\ w_second' = IF Wrapper_unwrap_hash(w_self, hash).err # NoError
                         THEN Wrapper_unwrap_hash(w_self, hash)
                         ELSE Wrapper_wrap_hash(w_self,
                                                Wrapper_unwrap_hash(w_self, hash).val)
    /\ w_op' = "unwrap_wrap"
    /\ w_pc' = "called"
    /\ w_idw' = Result(NoError, FALSE, <<>>)
    /\ w_idh' = Result(NoError, FALSE, <<>>)
    /\ UNCHANGED w_self
    /\ WrapFrame

\* hash = self.wrapped.hash(secret); self.identify(self._wrap_hash(hash)) and
\* self.identify(hash)
DoWrapperIdentify ==
    /\ w_pc = "wrapper"
    /\ \E secret \in WrapSecrets :
          LET hash == Hash(w_self.wrapped, secret, None, None).val
              wrap == Wrapper_wrap_hash(w_self, hash)
          IN  /\ Hash(w_self.wrapped, secret, None, None).err = NoError
              /\ w_hash' = hash
              /\ w_first' = wrap
              /\ w_idw' = IF wrap.err # NoError
                          THEN Result(wrap.err, FALSE, <<"_wrap_hash">>)
                          ELSE Wrapper_identify(w_self, wrap.val)
              /\ w_idh' = Wrapper_identify(w_self, hash)
    /\ w_op' = "identify"
    /\ w_pc' = "called"
    /\ w_second' = Unwrapped(NoError, <<>>)
    /\ UNCHANGED w_self
    /\ WrapFrame

NextWrap ==
    \/ DoWrapUnwrap
    \/ DoUnwrapWrap
    \/ DoWrapperIdentify

SpecWrap == InitWrap /\ [][NextWrap]_vars

-----------------------------------------------------------------------------
(* Properties of PrefixWrapper *)

\* err is exc.InvalidHashError, for whichever handler
IsInvalidHashError(err) == [err EXCEPT !.handler = ""] = InvalidHashError("")

\* C18: for any prefix and orig_prefix, _unwrap_hash(_wrap_hash(h)) = h for
\* every string h that starts with orig_prefix, _wrap_hash(_unwrap_hash(w)) = w
\* for every string w that starts with prefix, and a string without the
\* required prefix is rejected with InvalidHashError by either direction
C18_WrapUnwrapInverse ==
    /\ w_op = "wrap_unwrap" =>
          IF StartsWith(w_hash, w_self.orig_prefix)
          THEN /\ w_first.err = NoError
               /\ w_second = Unwrapped(NoError, w_hash)
          ELSE IsInvalidHashError(w_first.err)
    /\ w_op = "unwrap_wrap" =>
          IF StartsWith(w_hash, w_self.prefix)
          THEN /\ w_first.err = NoError
               /\ w_second = Unwrapped(NoError, w_hash)
          ELSE IsInvalidHashError(w_first.err)

\* a string with more than its orig_prefix went through a wrapper whose two
\* prefixes are both non-empty and differ, and came back
C18_Witness ==
    /\ w_op = "wrap_unwrap"
    /\ w_self.prefix # <<>>
    /\ w_self.orig_prefix # <<>>
    /\ w_self.prefix # w_self.orig_prefix
    /\ StartsWith(w_hash, w_self.orig_prefix)
    /\ Len(w_hash) > Len(w_self.orig_prefix)
    /\ w_first.val # w_hash
    /\ w_second.val = w_hash

\* identify() returned val without raising
Identified(res, val) == res.err = NoError /\ res.val = val

\* C19 as stated: whenever prefix differs from orig_prefix, for every hash h
\* of the wrapped handler identify(wrap(h)) is True and identify(h) is False
C19_StatedIdentify ==
    (w_op = "identify" /\ w_self.prefix # w_self.orig_prefix) =>
        /\ Identified(w_idw, TRUE)
        /\ Identified(w_idh, FALSE)

\* C19: for every hash h of the wrapped handler, identify(wrap(h)) is True
\* when h starts with orig_prefix (else _wrap_hash raises InvalidHashError);
\* identify(h) is False when h does not start with prefix, and otherwise is
\* what the wrapped handler says of orig_prefix + h[len(prefix):]
C19_IdentifyWrapped ==
    w_op = "identify" =>
        /\ IF StartsWith(w_hash, w_self.orig_prefix)
           THEN Identified(w_idw, TRUE)
           ELSE IsInvalidHashError(w_idw.err)
        /\ IF ~StartsWith(w_hash, w_self.prefix)
           THEN Identified(w_idh, FALSE)
           ELSE Identified(w_idh,
                           Identify(w_self.wrapped,
                                    w_self.orig_prefix
                                    \o DropFirst(w_hash, Len(w_self.prefix))).val)

\* bsd_nthash's arrangement: prefix "$3$$" around nthash, no orig_prefix; the
\* wrapped form is identified and the bare nthash hash is not
C19_Witness ==
    /\ w_op = "identify"
    /\ w_self.prefix = bsd_prefix
    /\ w_self.orig_prefix = bsd_orig_prefix
    /\ w_self.wrapped = Class("nthash")
    /\ w_first = Unwrapped(NoError, bsd_prefix \o w_hash)
    /\ Identified(w_idw, TRUE)
    /\ Identified(w_idh, FALSE)

-----------------------------------------------------------------------------
(* using() on classes kept as objects.  A class is a parent (0 for the      *)
(* original) and its own attributes; an attribute a class does not own is    *)
(* read from its parent, as Python resolves class attributes.  The class     *)
(* modelled mixes TruncateMixin, ParallelismMixin, HasManyIdents, HasRounds  *)
(* and HasSalt, in that order, over GenericHandler.                          *)

\* most classes the program holds at once
MaxClasses == 3

\* the attributes using() configures; an own attribute is <<>> (not owned) or
\* <<value>>.  Rounds settings are <<>> (None) or <<n>>; _generate_salt is None
\* for HasSalt._generate_salt and a text for the fixed salt installed by
\* using(salt=...)
Attrs ==
    {"_configured", "min_desired_rounds", "max_desired_rounds", "default_rounds",
     "vary_rounds", "default_salt_size", "_generate_salt", "default_ident",
     "parallelism", "truncate_error"}

NoAttrs == [a \in Attrs |-> <<>>]

ClassObject(parent, own) == [parent |-> parent, own |-> own]

\* the attributes using() never assigns: the hard limits of the class
Limits ==
    [name |-> "handler", min_rounds |-> 1, max_rounds |-> <<4>>,
     min_salt_size |-> 0, max_salt_size |-> 2, salt_chars |-> {"a", "b"}]

\* getattr(cls, attr): the first owner along the parents
RECURSIVE getattr(_, _, _)
getattr(heap, cls, attr) ==
    IF heap[cls].own[attr] # <<>> THEN heap[cls].own[attr][1]
    ELSE getattr(heap, heap[cls].parent, attr)

\* setattr(cls, attr, value)
setattr(heap, cls, attr, value) == [heap EXCEPT ![cls].own[attr] = <<value>>]

\* what a using() call gives back: the error raised, the classes afterwards,
\* and the class returned
Used(err, heap, cls) == [err |-> err, heap |-> heap, cls |-> cls]

\* the keywords of a using() call; an integer keyword is <<>> when not given
NoKw ==
    [min_desired_rounds |-> <<>>, max_desired_rounds |-> <<>>, default_rounds |-> <<>>,
     vary_rounds |-> <<>>, min_rounds |-> <<>>, max_rounds |-> <<>>, rounds |-> <<>>,
     default_salt_size |-> <<>>, salt_size |-> <<>>, salt |-> None,
     default_ident |-> None, ident |-> None, parallelism |-> <<>>,
     truncate_error |-> <<>>, relaxed |-> FALSE]

\* bool(value) of an optional integer
NonZero(v) == v # <<>> /\ v[1] # 0

\* MinimalHandler.using that hands back a class that is configured already
MinimalHandler_using_reusing(heap, cls, kw) ==
    IF getattr(heap, cls, "_configured")
    THEN Used(NoError, heap, cls)
    ELSE Used(NoError,
              Append(heap, ClassObject(cls, [NoAttrs EXCEPT !["_configured"] = <<TRUE>>])),
              Len(heap) + 1)

\* MinimalHandler.using(relaxed): type(name, (cls,), dict(_configured=True))
MinimalHandler_using_type(heap, cls, kw) ==
    Used(NoError,
         Append(heap, ClassObject(cls, [NoAttrs EXCEPT !["_configured"] = <<TRUE>>])),
         Len(heap) + 1)

\* the salt limits of the class
LimitsSaltClass ==
    SaltClass(Limits.name, Limits.min_salt_size, <<Limits.max_salt_size>>,
              <<Limits.salt_chars>>)

\* subcls._clip_to_valid_salt_size(salt_size, param, relaxed)
clip_to_valid_salt_size(salt_size, relaxed) ==
    HasSalt_clip_to_valid_salt_size(LimitsSaltClass, salt_size, relaxed)

\* subcls._norm_salt(salt, relaxed) for a text salt
HasSalt_norm_salt(salt, relaxed) == norm_salt(LimitsSaltClass, salt, relaxed)

\* HasSalt.using, "if salt specified, replace _generate_salt() with fixed output"
HasSalt_using_salt(heap, subcls, kw, salt) ==
    IF kw.salt = None THEN Used(NoError, heap, subcls)
    ELSE IF salt.err # NoError THEN Used(salt.err, heap, subcls)
    ELSE Used(NoError, setattr(heap, subcls, "_generate_salt", salt.val), subcls)

\* HasSalt.using, "replace default_rounds": subcls.default_salt_size
HasSalt_using_size(sup, kw, default_salt_size, size) ==
    IF default_salt_size # <<>> /\ size.err # NoError
    THEN Used(size.err, sup.heap, sup.cls)
    ELSE HasSalt_using_salt(
             IF default_salt_size = <<>> THEN sup.heap
             ELSE setattr(sup.heap, sup.cls, "default_salt_size", size.val),
             sup.cls, kw,
             IF kw.salt = None THEN Normed(NoError, <<>>, <<>>)
             ELSE HasSalt_norm_salt(kw.salt, kw.relaxed))

\* HasSalt.using, from "generate new subclass" on
HasSalt_using_subclass(sup, kw, default_salt_size) ==
    HasSalt_using_size(sup, kw, default_salt_size,
                       IF default_salt_size = <<>> THEN Normed(NoError, 0, <<>>)
                       ELSE clip_to_valid_salt_size(default_salt_size[1], kw.relaxed))

\* HasSalt.using(default_salt_size, salt_size, salt, **kwds)
HasSalt_using(heap, cls, kw) ==
    IF kw.salt_size # <<>> /\ kw.default_salt_size # <<>>
    THEN Used(TypeError("'salt_size' and 'default_salt_size' aliases are mutually exclusive"),
              heap, cls)
    ELSE HasSalt_using_subclass(
             MinimalHandler_using_type(heap, cls, kw), kw,
             IF kw.salt_size # <<>> THEN kw.salt_size ELSE kw.default_salt_size)

\* HasRounds._norm_rounds(rounds, relaxed, param) under the class's limits
norm_rounds(rounds, relaxed) ==
    HasRounds_norm_rounds(RoundsClass(Limits.min_rounds, Limits.max_rounds),
                          IntValue(rounds), relaxed)

\* HasRounds._clip_to_desired_rounds(rounds)
clip_to_desired_rounds(heap, cls, rounds) ==
    LET mnd == IF NonZero(getattr(heap, cls, "min_desired_rounds"))
               THEN getattr(heap, cls, "min_desired_rounds")[1] ELSE 0
        mxd == getattr(heap, cls, "max_desired_rounds")
    IN  IF rounds < mnd THEN mnd
        ELSE IF NonZero(mxd) /\ rounds > mxd[1] THEN mxd[1]
        ELSE rounds

\* HasRounds.using, "replace / set vary_rounds"
HasRounds_using_vary(heap, subcls, kw) ==
    IF kw.vary_rounds = <<>> THEN Used(NoError, heap, subcls)
    ELSE IF kw.vary_rounds[1] < 0
    THEN Used(ValueError("%s: vary_rounds (%r) below 0", Limits.name), heap, subcls)
    ELSE Used(NoError, setattr(heap, subcls, "vary_rounds", kw.vary_rounds), subcls)

\* HasRounds.using, "clip default rounds to new limits"
HasRounds_using_clip(heap, subcls, kw) ==
    HasRounds_using_vary(
        IF getattr(heap, subcls, "default_rounds") # <<>>
        THEN setattr(heap, subcls, "default_rounds",
                     <<clip_to_desired_rounds(
                           heap, subcls, getattr(heap, subcls, "default_rounds")[1])>>)
        ELSE heap,
        subcls, kw)

\* HasRounds.using, "replace default_rounds", with the local min_desired_rounds
\* and max_desired_rounds
HasRounds_using_default(heap, subcls, kw, min_desired_rounds, max_desired_rounds, default_rounds) ==
    IF default_rounds # <<>> /\ NonZero(min_desired_rounds)
       /\ default_rounds[1] < min_desired_rounds[1]
    THEN Used(ValueError("%s: default_rounds (%r) below min_desired_rounds (%r)",
                         Limits.name), heap, subcls)
    ELSE IF default_rounds # <<>> /\ NonZero(max_desired_rounds)
            /\ default_rounds[1] > max_desired_rounds[1]
    THEN Used(ValueError("%s: default_rounds (%r) above max_desired_rounds (%r)",
                         Limits.name), heap, subcls)
    ELSE IF default_rounds # <<>> /\ norm_rounds(default_rounds[1], kw.relaxed).err # NoError
    THEN Used(norm_rounds(default_rounds[1], kw.relaxed).err, heap, subcls)
    ELSE HasRounds_using_clip(
             IF default_rounds = <<>> THEN heap
             ELSE setattr(heap, subcls, "default_rounds",
                          <<norm_rounds(default_rounds[1], kw.relaxed).val>>),
             subcls, kw)

\* HasRounds.using, "replace max_desired_rounds": max_desired_rounds is the
\* keyword, already raised to min_desired_rounds when it was below it and
\* min_desired_rounds was not given
HasRounds_using_max(heap, cls, subcls, kw, min_desired_rounds, max_desired_rounds, default_rounds) ==
    IF max_desired_rounds # <<>> /\ norm_rounds(max_desired_rounds[1], kw.relaxed).err # NoError
    THEN Used(norm_rounds(max_desired_rounds[1], kw.relaxed).err, heap, subcls)
    ELSE HasRounds_using_default(
             IF max_desired_rounds = <<>> THEN heap
             ELSE setattr(heap, subcls, "max_desired_rounds",
                          <<norm_rounds(max_desired_rounds[1], kw.relaxed).val>>),
             subcls, kw, min_desired_rounds,
             IF max_desired_rounds = <<>> THEN getattr(heap, cls, "max_desired_rounds")
             ELSE max_desired_rounds,
             default_rounds)

\* HasRounds.using that only warns when max_desired_rounds is below
\* min_desired_rounds, whether or not min_desired_rounds was given
HasRounds_using_below_warning(heap, cls, subcls, kw, explicit_min_rounds, min_desired_rounds, max_desired_rounds, default_rounds) ==
    HasRounds_using_max(
        heap, cls, subcls, kw, min_desired_rounds,
        IF max_desired_rounds # <<>> /\ NonZero(min_desired_rounds)
           /\ max_desired_rounds[1] < min_desired_rounds[1]
        THEN min_desired_rounds ELSE max_desired_rounds,
        default_rounds)

\* HasRounds.using, the test of max_desired_rounds against min_desired_rounds
HasRounds_using_below(heap, cls, subcls, kw, explicit_min_rounds, min_desired_rounds, max_desired_rounds, default_rounds) ==
    IF max_desired_rounds # <<>> /\ NonZero(min_desired_rounds)
       /\ max_desired_rounds[1] < min_desired_rounds[1] /\ explicit_min_rounds
    THEN Used(ValueError("%s: max_desired_rounds (%r) below min_desired_rounds (%r)",
                         Limits.name), heap, subcls)
    ELSE HasRounds_using_max(
             heap, cls, subcls, kw, min_desired_rounds,
             IF max_desired_rounds # <<>> /\ NonZero(min_desired_rounds)
                /\ max_desired_rounds[1] < min_desired_rounds[1]
             THEN min_desired_rounds ELSE max_desired_rounds,
             default_rounds)

\* HasRounds.using, from "generate new subclass" on: "replace
\* min_desired_rounds"
HasRounds_using_min(sup, cls, kw, min_desired_rounds, max_desired_rounds, default_rounds) ==
    IF sup.err # NoError THEN sup
    ELSE IF min_desired_rounds # <<>>
            /\ norm_rounds(min_desired_rounds[1], kw.relaxed).err # NoError
    THEN Used(norm_rounds(min_desired_rounds[1], kw.relaxed).err, sup.heap, sup.cls)
    ELSE HasRounds_using_below(
             IF min_desired_rounds = <<>> THEN sup.heap
             ELSE setattr(sup.heap, sup.cls, "min_desired_rounds",
                          <<norm_rounds(min_desired_rounds[1], kw.relaxed).val>>),
             cls, sup.cls, kw, min_desired_rounds # <<>>,
             IF min_desired_rounds = <<>>
             THEN getattr(sup.heap, cls, "min_desired_rounds")
             ELSE min_desired_rounds,
             max_desired_rounds, default_rounds)

\* HasRounds.using, "use 'rounds' as fallback for min, max, AND default"
rounds_fallback(rounds, value) ==
    IF rounds # <<>> /\ value = <<>> THEN rounds ELSE value

\* HasRounds.using(min_desired_rounds, max_desired_rounds, default_rounds,
\* vary_rounds, min_rounds, max_rounds, rounds, **kwds) with integer keywords
HasRounds_using(heap, cls, kw) ==
    IF kw.min_rounds # <<>> /\ kw.min_desired_rounds # <<>>
    THEN Used(TypeError("'min_rounds' and 'min_desired_rounds' aliases are mutually exclusive"),
              heap, cls)
    ELSE IF kw.max_rounds # <<>> /\ kw.max_desired_rounds # <<>>
    THEN Used(TypeError("'max_rounds' and 'max_desired_rounds' aliases are mutually exclusive"),
              heap, cls)
    ELSE HasRounds_using_min(
             HasSalt_using(heap, cls, kw), cls, kw,
             rounds_fallback(kw.rounds, IF kw.min_rounds # <<>> THEN kw.min_rounds
                                        ELSE kw.min_desired_rounds),
             rounds_fallback(kw.rounds, IF kw.max_rounds # <<>> THEN kw.max_rounds
                                        ELSE kw.max_desired_rounds),
             rounds_fallback(kw.rounds, kw.default_rounds))

\* HasManyIdents.using, from "create subclass" on; the ident is normalized by
\* an instance of cls, cls(ident=default_ident, use_defaults=True).ident
HasManyIdents_using_subclass(sup, kw, default_ident) ==
    IF sup.err # NoError \/ default_ident = None THEN sup
    ELSE IF norm_ident(default_ident) = None
    THEN Used(ValueError("invalid ident", Limits.name), sup.heap, sup.cls)
    ELSE Used(NoError,
              setattr(sup.heap, sup.cls, "default_ident", norm_ident(default_ident)),
              sup.cls)

\* HasManyIdents.using(default_ident, ident, **kwds)
HasManyIdents_using_class(heap, cls, kw) ==
    IF kw.ident # None /\ kw.default_ident # None
    THEN Used(TypeError("'default_ident' and 'ident' are mutually exclusive"), heap, cls)
    ELSE HasManyIdents_using_subclass(
             HasRounds_using(heap, cls, kw), kw,
             IF kw.ident # None THEN kw.ident ELSE kw.default_ident)

\* ParallelismMixin._norm_parallelism(parallelism, relaxed)
norm_parallelism(parallelism, relaxed) ==
    norm_integer(Limits.name, IntValue(parallelism), 1, <<>>, "parallelism", relaxed)

\* ParallelismMixin.using, after super().using(**kwds)
ParallelismMixin_using_subclass(sup, kw) ==
    IF sup.err # NoError \/ kw.parallelism = <<>> THEN sup
    ELSE IF norm_parallelism(kw.parallelism[1], kw.relaxed).err # NoError
    THEN Used(norm_parallelism(kw.parallelism[1], kw.relaxed).err, sup.heap, sup.cls)
    ELSE Used(NoError,
              setattr(sup.heap, sup.cls, "parallelism",
                      norm_parallelism(kw.parallelism[1], kw.relaxed).val),
              sup.cls)

\* ParallelismMixin.using(parallelism, **kwds)
ParallelismMixin_using(heap, cls, kw) ==
    ParallelismMixin_using_subclass(HasManyIdents_using_class(heap, cls, kw), kw)

\* TruncateMixin.using, after super().using(**kwds)
TruncateMixin_using_subclass(sup, kw) ==
    IF sup.err # NoError \/ kw.truncate_error = <<>> THEN sup
    ELSE Used(NoError,
              setattr(sup.heap, sup.cls, "truncate_error", kw.truncate_error[1]),
              sup.cls)

\* TruncateMixin.using(truncate_error, **kwds)
TruncateMixin_using_class(heap, cls, kw) ==
    TruncateMixin_using_subclass(ParallelismMixin_using(heap, cls, kw), kw)

\* HasRounds._calc_vary_rounds_range(default_rounds) for an integer vary_rounds
calc_vary_rounds_range(heap, cls, default_rounds) ==
    LET vary_rounds == getattr(heap, cls, "vary_rounds")[1]
    IN  <<clip_to_desired_rounds(heap, cls, default_rounds - vary_rounds),
          clip_to_desired_rounds(heap, cls, default_rounds + vary_rounds)>>

\* HasRounds._generate_rounds(): the values it may return (rng.randint)
generate_rounds(heap, cls) ==
    LET rounds == getattr(heap, cls, "default_rounds")[1]
        range == calc_vary_rounds_range(heap, cls, rounds)
    IN  IF NonZero(getattr(heap, cls, "vary_rounds")) /\ range[1] < range[2]
        THEN range[1]..range[2]
        ELSE {rounds}

\* the fields of a hash string that the settings of the class bear on
HashFieldsOf(rounds, parallelism) == [rounds |-> rounds, parallelism |-> parallelism]

NoHash == Made(NoError, HashFieldsOf(0, 0))

AssertionError(msg) ==
    [type |-> "AssertionError", msg |-> msg, reason |-> "", handler |-> Limits.name,
     max_size |-> 0]

\* HasRounds._generate_rounds() with its assertion: the outcomes it may have
generate_rounds_outcomes(heap, cls, rounds, range) ==
    IF ~NonZero(getattr(heap, cls, "vary_rounds")) THEN {Normed(NoError, rounds, <<>>)}
    ELSE IF ~(range[1] <= rounds /\ rounds <= range[2])
    THEN {Normed(AssertionError("lower <= rounds <= upper"), 0, <<>>)}
    ELSE IF range[1] < range[2]
    THEN {Normed(NoError, r, <<>>) : r \in range[1]..range[2]}
    ELSE {Normed(NoError, rounds, <<>>)}

\* HasRounds.__init__(rounds=None) with use_defaults: the generated rounds
\* pass "assert self._norm_rounds(rounds) == rounds", whose call raises for a
\* value outside the hard limits
HasRounds_init_defaults(generated) ==
    IF generated.err # NoError THEN generated
    ELSE norm_rounds(generated.val, FALSE)

\* HasRounds.__init__(rounds): self._parse_rounds(rounds)
HasRounds_init(rounds) == norm_rounds(rounds, FALSE)

\* ParallelismMixin.__init__(parallelism), after super().__init__(**kwds)
ParallelismMixin_init(rounds, parallelism) ==
    IF rounds.err # NoError THEN Made(rounds.err, HashFieldsOf(0, 0))
    ELSE IF parallelism.err # NoError THEN Made(parallelism.err, HashFieldsOf(0, 0))
    ELSE Made(NoError, HashFieldsOf(rounds.val, parallelism.val))

\* cls.hash(secret): cls(use_defaults=True), whose rounds are generated and
\* whose parallelism is the class's; the hash string carries both
hash_defaults(heap, cls) ==
    {ParallelismMixin_init(HasRounds_init_defaults(g),
                           norm_parallelism(getattr(heap, cls, "parallelism"), FALSE)) :
        g \in generate_rounds_outcomes(
                  heap, cls, getattr(heap, cls, "default_rounds")[1],
                  IF NonZero(getattr(heap, cls, "vary_rounds"))
                  THEN calc_vary_rounds_range(heap, cls,
                                              getattr(heap, cls, "default_rounds")[1])
                  ELSE <<0, 0>>)}

\* cls.from_string(hash): cls(rounds=..., parallelism=...) from the fields
from_fields(fields) ==
    ParallelismMixin_init(HasRounds_init(fields.rounds),
                          norm_parallelism(fields.parallelism, FALSE))

\* HasRounds._calc_needs_update that tests the lower desired bound only
HasRounds_calc_needs_update_min_only(heap, cls, self) ==
    NonZero(getattr(heap, cls, "min_desired_rounds"))
    /\ self.rounds < getattr(heap, cls, "min_desired_rounds")[1]

\* HasRounds._calc_needs_update(); GenericHandler._calc_needs_update() is False
HasRounds_calc_needs_update(heap, cls, self) ==
    IF NonZero(getattr(heap, cls, "min_desired_rounds"))
       /\ self.rounds < getattr(heap, cls, "min_desired_rounds")[1]
    THEN TRUE
    ELSE IF NonZero(getattr(heap, cls, "max_desired_rounds"))
            /\ self.rounds > getattr(heap, cls, "max_desired_rounds")[1]
    THEN TRUE
    ELSE FALSE

\* ParallelismMixin._calc_needs_update()
ParallelismMixin_calc_needs_update(heap, cls, self) ==
    IF self.parallelism # getattr(heap, cls, "parallelism") THEN TRUE
    ELSE HasRounds_calc_needs_update(heap, cls, self)

\* GenericHandler.needs_update, after self = cls.from_string(hash)
needs_update_parsed(heap, cls, made) ==
    IF made.err # NoError THEN Unwrapped(made.err, FALSE)
    ELSE Unwrapped(NoError, ParallelismMixin_calc_needs_update(heap, cls, made.inst))

\* GenericHandler.needs_update(hash)
needs_update(heap, cls, fields) == needs_update_parsed(heap, cls, from_fields(fields))

\* the rounds and parallelism a hash string may carry
HashRounds == 0..(Limits.max_rounds[1] + 1)
HashParallelism == 0..2

\* cls(use_defaults=True): what the instance's rounds, salt, ident and
\* parallelism are; the salt is the fixed one, or random of default_salt_size
InstanceDefaults(heap, cls) ==
    [rounds |-> generate_rounds(heap, cls),
     salt |-> getattr(heap, cls, "_generate_salt"),
     salt_size |-> IF getattr(heap, cls, "_generate_salt") = None
                   THEN getattr(heap, cls, "default_salt_size")
                   ELSE Len(getattr(heap, cls, "_generate_salt")),
     ident |-> getattr(heap, cls, "default_ident"),
     parallelism |-> getattr(heap, cls, "parallelism")]

\* the class-level settings of cls, as reading them from cls gives them
ClassSettings(heap, cls) == [a \in Attrs |-> getattr(heap, cls, a)]

\* the original classes tried: one without desired bounds, one with desired
\* bounds and vary_rounds
Original(min_desired_rounds, max_desired_rounds, default_rounds, vary_rounds) ==
    ClassObject(0,
        [a \in Attrs |->
            CASE a = "_configured" -> <<FALSE>>
              [] a = "min_desired_rounds" -> <<min_desired_rounds>>
              [] a = "max_desired_rounds" -> <<max_desired_rounds>>
              [] a = "default_rounds" -> <<default_rounds>>
              [] a = "vary_rounds" -> <<vary_rounds>>
              [] a = "default_salt_size" -> <<Limits.max_salt_size>>
              [] a = "_generate_salt" -> <<None>>
              [] a = "default_ident" -> <<ident_values[1]>>
              [] a = "parallelism" -> <<1>>
              [] a = "truncate_error" -> <<FALSE>>])

Originals == {Original(<<>>, <<>>, <<2>>, <<>>), Original(<<2>>, <<3>>, <<3>>, <<1>>)}

\* the using() calls tried: every keyword, alone and in the combinations the
\* code treats specially, with values inside and outside the limits
Kws ==
    {NoKw,
     [NoKw EXCEPT !.min_desired_rounds = <<0>>, !.relaxed = TRUE],
     [NoKw EXCEPT !.max_desired_rounds = <<1>>],
     [NoKw EXCEPT !.min_desired_rounds = <<3>>, !.max_desired_rounds = <<2>>],
     [NoKw EXCEPT !.default_rounds = <<4>>],
     [NoKw EXCEPT !.rounds = <<3>>],
     [NoKw EXCEPT !.vary_rounds = <<1>>],
     [NoKw EXCEPT !.vary_rounds = <<0 - 1>>],
     [NoKw EXCEPT !.min_rounds = <<2>>, !.min_desired_rounds = <<2>>],
     [NoKw EXCEPT !.default_salt_size = <<1>>],
     [NoKw EXCEPT !.salt_size = <<9>>],
     [NoKw EXCEPT !.salt = <<"a", "b", "a">>, !.relaxed = TRUE],
     [NoKw EXCEPT !.default_ident = ident_values[2]],
     [NoKw EXCEPT !.ident = <<"z">>],
     [NoKw EXCEPT !.parallelism = <<2>>],
     [NoKw EXCEPT !.truncate_error = <<TRUE>>],
     [NoKw EXCEPT !.max_rounds = <<3>>, !.max_desired_rounds = <<3>>],
     [NoKw EXCEPT !.salt_size = <<1>>, !.default_salt_size = <<1>>],
     [NoKw EXCEPT !.ident = ident_values[1], !.default_ident = ident_values[1]],
     [NoKw EXCEPT !.min_desired_rounds = <<0>>],
     [NoKw EXCEPT !.min_desired_rounds = <<4>>],
     [NoKw EXCEPT !.max_desired_rounds = <<5>>],
     [NoKw EXCEPT !.default_rounds = <<1>>],
     [NoKw EXCEPT !.max_desired_rounds = <<1>>, !.default_rounds = <<2>>],
     [NoKw EXCEPT !.salt = <<"a", "b", "a">>]}

\* what the caller of using() gets: the error, or the class (0 for none)
UsingResult(err, cls) == [err |-> err, cls |-> cls]

\* the other variables while using() is exercised
UsingRest ==
    /\ McfIdle
    /\ HandlerIdle
    /\ NormIdle
    /\ BackendIdle
    /\ ThreadIdle
    /\ WrapIdle

InitUsing ==
    /\ UsingRest
    /\ u_pc = "class"
    /\ u_heap \in {<<o>> : o \in Originals}
    /\ u_first = [settings |-> ClassSettings(u_heap, 1),
                  defaults |-> InstanceDefaults(u_heap, 1)]
    /\ u_call = 0
    /\ u_kw = NoKw
    /\ u_before = u_heap
    /\ u_out = UsingResult(NoError, 0)
    /\ u_hash = NoHash
    /\ u_nu = Unwrapped(NoError, FALSE)

\* using() returns or raises: the classes afterwards and the caller's result
UsingReturned(res) ==
    /\ u_heap' = IF res.err = NoError THEN res.heap
                 ELSE SubSeq(res.heap, 1, Len(u_heap))
    /\ u_out' = IF res.err = NoError THEN UsingResult(NoError, res.cls)
                ELSE UsingResult(res.err, 0)

\* cls.using(**kw) on the original or on a class derived from it.  The class
\* made by a call that raises is referenced by nobody and is dropped.
DoUsingClass ==
    /\ u_pc \in {"class", "called"}
    /\ Len(u_heap) < MaxClasses
    /\ \E cls \in 1..Len(u_heap), kw \in Kws :
          /\ u_call' = cls
          /\ u_kw' = kw
          /\ UsingReturned(TruncateMixin_using_class(u_heap, cls, kw))
    /\ u_before' = u_heap
    /\ u_pc' = "called"
    /\ UNCHANGED <<u_first, u_hash, u_nu>>
    /\ UNCHANGED <<mcf_vars, handler_vars, norm_vars, backend_vars, thread_vars, wrap_vars>>

\* cls.needs_update(hash) on a hash string that carries any rounds and
\* parallelism; cls is the class using() has just returned, or the original
\* (every class is the newest one in the state where using() returned it)
DoNeedsUpdate ==
    /\ u_pc \in {"class", "called"}
    /\ u_out.err = NoError
    /\ \E cls \in {Len(u_heap)}, rounds \in HashRounds, parallelism \in HashParallelism :
          /\ u_call' = cls
          /\ u_hash' = Made(NoError, HashFieldsOf(rounds, parallelism))
          /\ u_nu' = needs_update(u_heap, cls, HashFieldsOf(rounds, parallelism))
    /\ u_pc' = "checked"
    /\ UNCHANGED <<u_heap, u_first, u_kw, u_before, u_out>>
    /\ UNCHANGED <<mcf_vars, handler_vars, norm_vars, backend_vars, thread_vars, wrap_vars>>

\* hash = cls.hash(secret), then cls.needs_update(hash) when hash() returned
HashReturned(cls, made) ==
    /\ u_hash' = made
    /\ u_nu' = IF made.err # NoError THEN Unwrapped(NoError, FALSE)
               ELSE needs_update(u_heap, cls, made.inst)

DoHashNeedsUpdate ==
    /\ u_pc \in {"class", "called"}
    /\ u_out.err = NoError
    /\ \E cls \in {Len(u_heap)} :
          /\ u_call' = cls
          /\ \E made \in hash_defaults(u_heap, cls) : HashReturned(cls, made)
    /\ u_pc' = "hashed"
    /\ UNCHANGED <<u_heap, u_first, u_kw, u_before, u_out>>
    /\ UNCHANGED <<mcf_vars, handler_vars, norm_vars, backend_vars, thread_vars, wrap_vars>>

NextUsing ==
    \/ DoUsingClass
    \/ DoNeedsUpdate
    \/ DoHashNeedsUpdate

SpecUsing == InitUsing /\ [][NextUsing]_vars

-----------------------------------------------------------------------------
(* Properties of using() *)

\* C20: a using() call, whether it returns or raises, leaves every class that
\* existed before it as it was: each class-level setting (desired rounds
\* bounds, default rounds, vary_rounds, default salt size, salt generator,
\* default ident, parallelism, truncate_error) reads as before and the defaults
\* of an instance are as before; after any sequence of calls on the original
\* or on classes derived from it, the original's settings and instance
\* defaults are those it was defined with
C20_UsingLeavesClasses ==
    /\ u_pc = "called" =>
          \A c \in 1..Len(u_before) :
              /\ u_heap[c] = u_before[c]
              /\ ClassSettings(u_heap, c) = ClassSettings(u_before, c)
              /\ InstanceDefaults(u_heap, c) = InstanceDefaults(u_before, c)
    /\ u_pc \in {"class", "called"} =>
          /\ ClassSettings(u_heap, 1) = u_first.settings
          /\ InstanceDefaults(u_heap, 1) = u_first.defaults

\* using() was called on a class that using() had derived from the original,
\* and returned a class whose default rounds and instance defaults differ
\* from those of the class it was called on, whose own differ from the
\* original's
C20_Witness ==
    /\ u_pc = "called"
    /\ u_out.err = NoError
    /\ u_call = 2
    /\ u_out.cls = 3
    /\ getattr(u_heap, 2, "default_rounds") # getattr(u_heap, 1, "default_rounds")
    /\ getattr(u_heap, 3, "default_rounds") # getattr(u_heap, 2, "default_rounds")
    /\ InstanceDefaults(u_heap, 3) # InstanceDefaults(u_heap, 2)
    /\ InstanceDefaults(u_heap, 2) # InstanceDefaults(u_heap, 1)

\* the keywords of a call after HasRounds.using has resolved the aliases and
\* the 'rounds' fallback
given_min(kw) ==
    rounds_fallback(kw.rounds, IF kw.min_rounds # <<>> THEN kw.min_rounds
                               ELSE kw.min_desired_rounds)

given_max(kw) ==
    rounds_fallback(kw.rounds, IF kw.max_rounds # <<>> THEN kw.max_rounds
                               ELSE kw.max_desired_rounds)

given_default(kw) == rounds_fallback(kw.rounds, kw.default_rounds)

\* both members of an alias pair were given
AliasConflict(kw) ==
    \/ kw.min_rounds # <<>> /\ kw.min_desired_rounds # <<>>
    \/ kw.max_rounds # <<>> /\ kw.max_desired_rounds # <<>>
    \/ kw.salt_size # <<>> /\ kw.default_salt_size # <<>>
    \/ kw.ident # None /\ kw.default_ident # None

\* an explicit max_desired_rounds below an explicit min_desired_rounds
MaxBelowMin(kw) ==
    /\ given_min(kw) # <<>>
    /\ given_max(kw) # <<>>
    /\ given_max(kw)[1] < given_min(kw)[1]

\* the desired bound a call on cls leaves in effect: the one given, else the
\* one of cls (a bound of 0 or None is no bound); a max_desired_rounds given
\* below the min_desired_rounds of cls is raised to it, with a warning
min_in_effect(heap, cls, kw) ==
    IF given_min(kw) # <<>> THEN given_min(kw) ELSE getattr(heap, cls, "min_desired_rounds")

max_in_effect(heap, cls, kw) ==
    IF given_max(kw) = <<>> THEN getattr(heap, cls, "max_desired_rounds")
    ELSE IF NonZero(min_in_effect(heap, cls, kw))
            /\ given_max(kw)[1] < min_in_effect(heap, cls, kw)[1]
    THEN min_in_effect(heap, cls, kw)
    ELSE given_max(kw)

\* a default_rounds outside the desired range in effect
DefaultOutside(heap, cls, kw) ==
    /\ given_default(kw) # <<>>
    /\ \/ /\ NonZero(min_in_effect(heap, cls, kw))
          /\ given_default(kw)[1] < min_in_effect(heap, cls, kw)[1]
       \/ /\ NonZero(max_in_effect(heap, cls, kw))
          /\ given_default(kw)[1] > max_in_effect(heap, cls, kw)[1]

\* an optional integer outside [lo, hi]
OutsideLimits(v, lo, hi) == v # <<>> /\ (v[1] < lo \/ v[1] > hi)

\* with relaxed off: a rounds bound, salt size or fixed salt outside the hard
\* limits of the algorithm
OutsideHardLimits(kw) ==
    /\ ~kw.relaxed
    /\ \/ OutsideLimits(given_min(kw), Limits.min_rounds, Limits.max_rounds[1])
       \/ OutsideLimits(given_max(kw), Limits.min_rounds, Limits.max_rounds[1])
       \/ OutsideLimits(given_default(kw), Limits.min_rounds, Limits.max_rounds[1])
       \/ OutsideLimits(kw.salt_size, Limits.min_salt_size, Limits.max_salt_size)
       \/ OutsideLimits(kw.default_salt_size, Limits.min_salt_size, Limits.max_salt_size)
       \/ /\ kw.salt # None
          /\ OutsideLimits(<<Len(kw.salt)>>, Limits.min_salt_size, Limits.max_salt_size)

\* C21: using() itself rejects an invalid configuration and then returns no
\* class.  Both members of an alias pair (min_rounds / min_desired_rounds,
\* max_rounds / max_desired_rounds, salt_size / default_salt_size, ident /
\* default_ident) raise TypeError; otherwise an explicit max_desired_rounds
\* below an explicit min_desired_rounds, a default_rounds outside the desired
\* range, a negative vary_rounds and, with relaxed off, a rounds bound, salt
\* size or fixed salt outside the hard limits raise ValueError
C21_InvalidUsingRejected ==
    u_pc = "called" =>
        /\ u_out.err # NoError => u_out.cls = 0
        /\ AliasConflict(u_kw) => u_out.err.type = "TypeError"
        /\ ~AliasConflict(u_kw) =>
              /\ MaxBelowMin(u_kw) => u_out.err.type = "ValueError"
              /\ DefaultOutside(u_before, u_call, u_kw) => u_out.err.type = "ValueError"
              /\ NonZero(u_kw.vary_rounds) /\ u_kw.vary_rounds[1] < 0
                    => u_out.err.type = "ValueError"
              /\ OutsideHardLimits(u_kw) => u_out.err.type = "ValueError"

\* using(min_desired_rounds=3, max_desired_rounds=2) was called on a class
\* that an earlier using() call returned, raised ValueError and returned no
\* class
C21_Witness ==
    /\ u_pc = "called"
    /\ u_call = 2
    /\ MaxBelowMin(u_kw)
    /\ ~AliasConflict(u_kw)
    /\ u_out.err.type = "ValueError"
    /\ u_out.cls = 0
    /\ Len(u_heap) = 2

-----------------------------------------------------------------------------
(* Properties of needs_update() and of hash() with the class's defaults *)

\* rounds is inside the hard range of the algorithm
InHardRange(rounds) == Limits.min_rounds <= rounds /\ rounds <= Limits.max_rounds[1]

\* the checks that flag a parsed hash
BelowDesired(heap, cls, rounds) ==
    NonZero(getattr(heap, cls, "min_desired_rounds"))
    /\ rounds < getattr(heap, cls, "min_desired_rounds")[1]

AboveDesired(heap, cls, rounds) ==
    NonZero(getattr(heap, cls, "max_desired_rounds"))
    /\ rounds > getattr(heap, cls, "max_desired_rounds")[1]

OtherParallelism(heap, cls, parallelism) == parallelism # getattr(heap, cls, "parallelism")

\* C22: needs_update(hash) on a hash that parses (rounds inside the hard
\* range, parallelism at least 1) raises nothing and returns True exactly when
\* a check flags it: rounds below min_desired_rounds, rounds above
\* max_desired_rounds, or a parallelism other than the class's; so rounds
\* inside the hard range but outside the desired range are flagged, not
\* rejected
C22_NeedsUpdate ==
    u_pc = "checked" /\ InHardRange(u_hash.inst.rounds) /\ u_hash.inst.parallelism >= 1 =>
        /\ u_nu.err = NoError
        /\ u_nu.val = (\/ BelowDesired(u_heap, u_call, u_hash.inst.rounds)
                       \/ AboveDesired(u_heap, u_call, u_hash.inst.rounds)
                       \/ OtherParallelism(u_heap, u_call, u_hash.inst.parallelism))

\* needs_update() on a class configured by using() flagged a hash whose rounds
\* are inside the hard range and above max_desired_rounds, and whose
\* parallelism is the class's
C22_Witness ==
    /\ u_pc = "checked"
    /\ u_call > 1
    /\ InHardRange(u_hash.inst.rounds)
    /\ AboveDesired(u_heap, u_call, u_hash.inst.rounds)
    /\ ~BelowDesired(u_heap, u_call, u_hash.inst.rounds)
    /\ ~OtherParallelism(u_heap, u_call, u_hash.inst.parallelism)
    /\ u_nu = Unwrapped(NoError, TRUE)

\* C23: for every class, the original or one returned by a chain of using()
\* calls, needs_update() is False on a hash that the class's own hash() has
\* just produced from its defaults
C23_OwnHashNotFlagged ==
    u_pc = "hashed" /\ u_hash.err = NoError => u_nu = Unwrapped(NoError, FALSE)

\* C26: on every class returned by using(), hash() with no rounds given
\* generates rounds inside the hard range [min_rounds, max_rounds] and does
\* not fail
C26_GeneratedRoundsValid ==
    u_pc = "hashed" =>
        /\ u_hash.err = NoError
        /\ InHardRange(u_hash.inst.rounds)

\* C28: every class returned by using() has min_desired_rounds <=
\* max_desired_rounds whenever both are set
C28_DesiredBoundsOrdered ==
    \A c \in 1..Len(u_heap) :
        NonZero(getattr(u_heap, c, "min_desired_rounds"))
        /\ NonZero(getattr(u_heap, c, "max_desired_rounds"))
        => getattr(u_heap, c, "min_desired_rounds")[1]
              <= getattr(u_heap, c, "max_desired_rounds")[1]

-----------------------------------------------------------------------------
(* Properties of lmhash's truncation policy *)

\* hash() was called on lmhash, or on a class using() derived from it
LmhashHashed == h_pc = "hashed" /\ h_cls.base = "lmhash"

\* the error lmhash raises for a secret it would truncate: a
\* PasswordTruncateError (a PasswordSizeError) whose max_size is 14
IsTruncateError(err) ==
    /\ err.type = "PasswordTruncateError"
    /\ IsValueError(err)
    /\ err.max_size = truncate_size

\* C24 as stated: lmhash hashes every secret longer than 14 characters without
\* error by default and raises PasswordTruncateError for it under
\* truncate_error=True; secrets of 14 characters or less hash normally;
\* verify() never raises the truncation error
C24_StatedTruncatePolicy ==
    /\ LmhashHashed /\ Len(h_secret) > truncate_size =>
          IF h_cls.truncate_error THEN IsTruncateError(h_out.err)
          ELSE h_out.err = NoError
    /\ LmhashHashed /\ Len(h_secret) <= truncate_size => h_out.err = NoError
    /\ h_pc = "verified" /\ h_cls.base = "lmhash" =>
          v_out.err.type # "PasswordTruncateError"

\* C24 (amended): for a secret longer than 14 characters and within the global
\* size ceiling, lmhash by default hashes it without error, to the hash of its
\* first 14 characters, and under truncate_error=True raises
\* PasswordTruncateError, a size-limit error whose max_size is 14; a secret
\* above the global ceiling raises the size-limit error of the ceiling under
\* either setting; secrets of 14 characters or less hash normally; verify()
\* never raises the truncation error
C24_TruncatePolicy ==
    /\ LmhashHashed /\ Len(h_secret) > truncate_size
       /\ Len(h_secret) <= MAX_PASSWORD_SIZE =>
          IF h_cls.truncate_error THEN IsTruncateError(h_out.err)
          ELSE /\ h_out.err = NoError
               /\ h_out.val = lmhash_raw_hex(SubSeq(h_secret, 1, truncate_size))
    /\ LmhashHashed /\ Len(h_secret) > MAX_PASSWORD_SIZE =>
          h_out.err = PasswordSizeError(MAX_PASSWORD_SIZE)
    /\ LmhashHashed /\ Len(h_secret) <= truncate_size =>
          /\ h_out.err = NoError
          /\ h_out.val = lmhash_raw_hex(h_secret)
    /\ h_pc = "verified" /\ h_cls.base = "lmhash" =>
          v_out.err.type # "PasswordTruncateError"

\* hash() on a class from lmhash.using(truncate_error=True) raised the
\* truncation error for a secret of 15 characters
C24_Witness ==
    /\ LmhashHashed
    /\ h_cls.truncate_error
    /\ h_cls.configured
    /\ Len(h_secret) = truncate_size + 1
    /\ IsTruncateError(h_out.err)
    /\ h_out.err.handler = "lmhash"

(***************************************************************************)
(* Concurrent hash() / verify() on a class whose backend is unresolved.     *)

\* the call raised AssertionError("... failed to replace lazy loader")
LazyLoaderAssertion(t) == k_hash[t].at = "lazy_loader"

\* C27: when several threads call hash or verify concurrently on a
\* multi-backend handler whose backend is still unresolved and of which a
\* backend is available, every call computes its checksum with an installed
\* backend routine: in no interleaving of the lazy stub with another
\* thread's set_backend does a call fail with the "failed to replace lazy
\* loader" assertion.
C27_NoLazyLoaderAssertion ==
    k_pc # <<>> => \A t \in Threads : ~LazyLoaderAssertion(t)

(***************************************************************************)
(* The class-level backend state seen while no thread holds the lock.       *)

NoLockHeld == \A l \in Locks : k_lock[l].owner = NoThread

\* no backend is active and the checksum routine is the lazy stub
DispatchesToStub(st) == st.active = NoBackend /\ st.calc = Unresolved.calc

\* the active name is one of cls.backends and the installed checksum routine
\* is the one that backend's loader installed
DispatchesToActive(st) ==
    /\ \E i \in 1..Len(ThreadedBackends) : st.active = ThreadedBackends[i]
    /\ st.calc = st.active

\* a step never takes a class from an active backend to none
BackendStaysActive ==
    \A c \in ThreadedClasses :
        k_cstate[c].active # NoBackend => k_cstate'[c].active # NoBackend

\* C30: whenever no thread holds the backend lock, a multi-backend class
\* either has no active backend and dispatches to the lazy stub, or has an
\* active backend whose name is in backends and whose loader installed the
\* checksum routine in place; this holds after any sequence of get_backend,
\* has_backend and set_backend calls (successful, failing or dry-run) from
\* any number of threads, and a class that has an active backend never
\* returns to having none.  has_backend(name) is set_backend(name,
\* dryrun=True) with its errors caught and get_backend() is set_backend()
\* when no backend is active, so the calls drawn by TCall cover the three.
C30_LockFreeStateConsistent ==
    /\ [](k_pc # <<>> /\ NoLockHeld
            => \A c \in ThreadedClasses :
                  DispatchesToStub(k_cstate[c]) \/ DispatchesToActive(k_cstate[c]))
    /\ [][k_pc # <<>> => BackendStaysActive]_vars

\* no lock is held, builtin is active on c1, a dry run of os_crypt on it
\* has just come back refused, and c2 is still unresolved
C30_Witness ==
    /\ k_pc # <<>>
    /\ NoLockHeld
    /\ k_cstate["c1"].active = "builtin"
    /\ k_cstate["c1"].calc = "builtin"
    /\ k_pc["t1"] = "done"
    /\ k_call["t1"] = ThreadCall("c1", "os_crypt", TRUE)
    /\ k_ok["t1"] = "refuse"
    /\ k_pc["t2"] = "idle"
    /\ DispatchesToStub(k_cstate["c2"])

====
